---- MODULE Spec2Model ----
(***************************************************************************)
(* Staleness-gated concurrent collection pipeline.                         *)
(*                                                                         *)
(*   SpecDetector : staleness.Detector.CheckStaleness as a function of the *)
(*                  check target, the HEAD response and the clock.         *)
(*   SpecAPI      : one source handed to FileProcessor.ProcessAPIs (one    *)
(*                  worker), every configuration of the source.            *)
(*   SpecPool     : FileProcessor.ProcessAPIs, several sources and workers.*)
(*   SpecPoolFair : SpecPool with the scheduler's fairness.                  *)
(*   SpecBatch    : metrics.Collector, AddEvent/AddMetric racing SendBatch.*)
(*   SpecAlert    : alerts.Manager.SendAlert over a list of channels.       *)
(*   SpecCycle    : Application.processAPIs, one cycle.                     *)
(*   SpecCSV      : FileProcessor.processCSV as a function of the payload.  *)
(*   SpecMultiple : staleness.Detector.CheckMultiple, its goroutines and     *)
(*                  the collecting loop.                                    *)
(*   SpecConfig   : config.LoadConfig (setDefaults, validate) and            *)
(*                  Config.GetEnabledAPIs on the loaded configuration.      *)
(*   SpecEvent    : one payload item through convertToSamples and AddEvent. *)
(*   SpecJQ       : FileProcessor.processJSON with a filter expression.     *)
(*   SpecWebhook  : alerts.Manager.sendWebhook as a function of the channel  *)
(*                  settings and the endpoint's answer.                     *)
(*   SpecRun      : Application.run, from start to shutdown, with the       *)
(*                  ticker, the signal handler and the HTTP server          *)
(*                  goroutine; SpecRunFair adds the scheduler's fairness.   *)
(***************************************************************************)
EXTENDS Integers, Sequences, FiniteSets, TLC

\* ------------------------------------------------------------------ bounds

\* Largest age (in clock units) a Last-Modified date can lie in the past.
MaxAge == 3
\* Largest staleness threshold (same unit).
MaxThreshold == 2
\* Largest delay between the probe's own clock reading and time.Since.
MaxElapsed == 2
\* Longest source list handed to ProcessAPIs in SpecPool.
MaxSources == 2
\* Largest explicitly configured worker count.
MaxWorkers == 2
\* Most records one payload transforms into.
MaxSamples == 1
\* Entries each producer thread adds to the batch in SpecBatch.
MaxAdds == 2
\* SendBatch calls made by the flushing thread in SpecBatch.
MaxFlushes == 2
\* Longest list of alert channels a Manager is built with.
MaxChannels == 2
\* Most records (header included) of a tabular payload.
MaxRows == 4
\* Most fields of one record of a tabular payload.
MaxCols == 3
\* Ticks the ticker fires during one run of the Application.
MaxTicks == 2
\* Longest list of checks handed to CheckMultiple.
MaxChecks == 2
\* Longest list of sources in a configuration file.
MaxAPIs == 2
\* Most values a filter expression produces for one payload.
MaxValues == 2

\* ------------------------------------------------------------- constants

\* ProcessAPIs: worker count used when maxWorkers <= 0.
DefaultWorkers == 4
\* http.StatusOK
StatusOK == 200
\* setDefaults: worker_count used when it is 0.
DefaultWorkerCount == 4
\* validate: largest worker_count accepted.
MaxWorkerCount == 100
\* setDefaults: staleness threshold used when it is 0 (5 * time.Minute, in
\* seconds).
DefaultThreshold == 300

Nil == "nil"

\* ------------------------------------------------------------------ clock
\* Only differences of clock readings are observed (time.Since), so readings
\* are taken relative to the instant CheckStaleness evaluates time.Since.
\* 0 stands for the zero time.Time; real dates are >= 1.
ZeroTime == 0
Now == MaxAge + 1
Dates == 1..(Now + 1)

\* ------------------------------------------------------------- staleness

\* A check target as strings.TrimSpace and url.Parse see it.
GoodURL == [blank |-> FALSE, parses |-> TRUE, scheme |-> "https", host |-> "example.org"]

\* Representative targets: well formed; empty; unparsable; no scheme; ftp; no host.
CheckURLs ==
  { GoodURL,
    [GoodURL EXCEPT !.scheme = "http"],
    [blank |-> TRUE, parses |-> TRUE, scheme |-> "", host |-> ""],
    [GoodURL EXCEPT !.parses = FALSE],
    [GoodURL EXCEPT !.scheme = "", !.host = ""],
    [GoodURL EXCEPT !.scheme = "ftp"],
    [GoodURL EXCEPT !.host = ""] }

Behaviors == {"skip", "alert", "continue", "SKIP"}

\* What a HEAD request can come back with.  header: the Last-Modified
\* header is absent, present but in none of the accepted layouts, or a date.
\* delay: clock advance between getLastModified's time.Now() and time.Since.
HeadResponses ==
  { [transport |-> "fail", status |-> 0, header |-> "absent", date |-> ZeroTime, delay |-> 0] }
  \cup { [transport |-> "ok", status |-> s, header |-> "absent", date |-> ZeroTime, delay |-> 0] :
           s \in {404} }
  \cup { [transport |-> "ok", status |-> StatusOK, header |-> "absent", date |-> ZeroTime, delay |-> e] :
           e \in 0..MaxElapsed }
  \cup { [transport |-> "ok", status |-> StatusOK, header |-> "malformed", date |-> ZeroTime, delay |-> 0] }
  \cup { [transport |-> "ok", status |-> StatusOK, header |-> "date", date |-> d, delay |-> 0] :
           d \in Dates }

validateURLAnyHost(u) ==
  IF u.blank THEN "URL cannot be empty"
  ELSE IF ~u.parses THEN "invalid URL format"
  ELSE IF u.scheme = "" THEN "URL must include a scheme"
  ELSE IF u.scheme # "http" /\ u.scheme # "https" THEN "unsupported URL scheme"
  ELSE Nil

validateURL(u) ==
  IF u.blank THEN "URL cannot be empty"
  ELSE IF ~u.parses THEN "invalid URL format"
  ELSE IF u.scheme = "" THEN "URL must include a scheme"
  ELSE IF u.scheme # "http" /\ u.scheme # "https" THEN "unsupported URL scheme"
  ELSE IF u.host = "" THEN "URL must include a host"
  ELSE Nil

\* getLastModified: (time, error).  A missing header falls back to the
\* clock reading at that moment, Now - delay.
getLastModified(resp) ==
  IF resp.transport # "ok"
    THEN [time |-> ZeroTime, err |-> "failed to execute HEAD request"]
  ELSE IF resp.status # StatusOK
    THEN [time |-> ZeroTime, err |-> "HTTP request failed with status"]
  ELSE IF resp.header = "absent"
    THEN [time |-> Now - resp.delay, err |-> Nil]
  ELSE IF resp.header = "malformed"
    THEN [time |-> ZeroTime, err |-> "failed to parse Last-Modified header"]
  ELSE [time |-> resp.date, err |-> Nil]

EmptyStalenessResultNoPolicy(threshold, behavior) ==
  [IsStale |-> FALSE, FileAge |-> 0, LastModified |-> ZeroTime,
   Threshold |-> 0, Behavior |-> "",
   ShouldSkip |-> FALSE, ShouldAlert |-> FALSE, Error |-> Nil]

\* result := &Result{Threshold: threshold, Behavior: behavior}
EmptyStalenessResult(threshold, behavior) ==
  [IsStale |-> FALSE, FileAge |-> 0, LastModified |-> ZeroTime,
   Threshold |-> threshold, Behavior |-> behavior,
   ShouldSkip |-> FALSE, ShouldAlert |-> FALSE, Error |-> Nil]

IsStaleNonStrict(fileAge, threshold) == fileAge >= threshold

\* result.IsStale = result.FileAge > threshold
IsStale(fileAge, threshold) == fileAge > threshold

ShouldSkipAnyStale(isStale, behavior) == isStale

\* switch behavior { case "skip": result.ShouldSkip = true ... }
ShouldSkip(isStale, behavior) == isStale /\ behavior = "skip"

\* switch behavior { ... case "alert": result.ShouldAlert = true ... }
ShouldAlert(isStale, behavior) == isStale /\ behavior = "alert"

CheckStaleness(url, resp, threshold, behavior) ==
  LET result == EmptyStalenessResult(threshold, behavior)
      verr   == validateURL(url)
      lm     == getLastModified(resp)
      age    == Now - lm.time
      stale  == IsStale(age, threshold)
  IN  IF verr # Nil THEN [result EXCEPT !.Error = "invalid URL"]
      ELSE IF lm.err # Nil
        THEN [result EXCEPT !.Error = "failed to get last modified time"]
      ELSE [result EXCEPT !.LastModified = lm.time,
                          !.FileAge = age,
                          !.IsStale = stale,
                          !.ShouldSkip = ShouldSkip(stale, behavior),
                          !.ShouldAlert = ShouldAlert(stale, behavior)]

\* Stands for "no HEAD request was issued".
NoResponse ==
  [transport |-> "none", status |-> 0, header |-> "absent", date |-> ZeroTime, delay |-> 0]

\* The responses CheckStaleness can observe for a target: validateURL
\* returns before any request is made for a malformed one.
ProbeOutcomes(url) == IF validateURL(url) = Nil THEN HeadResponses ELSE {NoResponse}

\* HEAD requests CheckStaleness issues for a target.
HeadRequests(url) == IF validateURL(url) = Nil THEN 1 ELSE 0

\* strings.ToLower on the strings of the model.
ToLower(s) ==
  CASE s = "SKIP" -> "skip"
    [] s = "CSV" -> "csv"
    [] OTHER -> s

VARIABLES
  \* Detector.CheckStaleness called on its own
  check, response, checkResult,
  \* FileProcessor.ProcessAPIs
  apis, maxWorkers, mainPc, nextJob, jobs, jobsClosed, results,
  processResults, workers, crashed,
  \* per source: how its endpoints answer during this call, and the HEAD
  \* and GET requests issued for it so far
  network, heads, gets,
  \* metrics.Collector
  eventBatch, metricBatch, batchMutex,
  \* threads calling AddEvent/AddMetric, and the thread calling SendBatch
  producers, flusher,
  \* every entry a flush has swapped out of the pending collections so far
  flushedEvents, flushedMetrics,
  \* alerts.Manager: its channels, how each channel's endpoint answers, the
  \* SendAlert call in progress, every sendToChannel call made so far, and
  \* whether os.Exit has ended the process
  channels, alertNet, alertCall, attempts, exited,
  \* Application: its configuration and the processAPIs call in progress
  config, cycle,
  \* FileProcessor.processCSV called on its own: the payload and what the
  \* call returned
  csvData, csvResult,
  \* Application.run: where the main goroutine is, the ticker, the shutdown
  \* signal, the HTTP server goroutine, app.wg, the processAPIs calls in
  \* progress and the SendBatch calls made by shutdown
  runPc, ticker, sigState, httpServer, wg, activeCycles, finalFlushes,
  \* Manager.sendWebhook called on its own: the channel's settings with the
  \* endpoint's answer, and what the call did
  hook, hookResult,
  \* Detector.CheckMultiple: the call (its checks, goroutines and results
  \* slice) and its resultChan
  multi, resultChan,
  \* config.LoadConfig: the configuration as parsed from the file, what
  \* LoadConfig returned, and what GetEnabledAPIs returned on it
  rawConfig, loaded, enabledList,
  \* One payload item on its way into the batch: the item and its source,
  \* the sample convertToSamples makes of it, the event AddEvent stores
  evInput, evSample, evStored,
  \* FileProcessor.processJSON called on its own
  jqInput, jqResult

detectorVars == <<check, response, checkResult>>
poolVars == <<apis, maxWorkers, mainPc, nextJob, jobs, jobsClosed, results,
              processResults, workers, crashed, network, heads, gets>>
batchVars == <<eventBatch, metricBatch>>
lockVars == <<batchMutex, producers, flusher, flushedEvents, flushedMetrics>>
alertVars == <<channels, alertNet, alertCall, attempts, exited>>
appVars == <<config, cycle>>
csvVars == <<csvData, csvResult>>
runVars == <<runPc, ticker, sigState, httpServer, wg, activeCycles, finalFlushes>>
hookVars == <<hook, hookResult>>
\* The functions checked on their own besides CheckStaleness and processCSV.
multiVars == <<multi, resultChan>>
loadVars == <<rawConfig, loaded, enabledList>>
eventVars == <<evInput, evSample, evStored>>
jqVars == <<jqInput, jqResult>>
recordVars == <<eventVars, jqVars>>
callVars == <<hookVars, multiVars, loadVars, recordVars>>
vars == <<detectorVars, poolVars, batchVars, lockVars, alertVars, appVars, csvVars,
          runVars, callVars>>

\* ------------------------------------------------- the detector on its own

StalenessChecks ==
  [URL : CheckURLs, Threshold : 0..MaxThreshold, Behavior : Behaviors]

DetectorIdle ==
  /\ check = [URL |-> GoodURL, Threshold |-> 0, Behavior |-> "continue"]
  /\ response = NoResponse
  /\ checkResult = << >>

\* d.CheckStaleness(c.URL, c.Threshold, c.Behavior), once.
CheckStalenessCall ==
  /\ checkResult = << >>
  /\ \E resp \in ProbeOutcomes(check.URL) :
       /\ response' = resp
       /\ checkResult' =
            <<CheckStaleness(check.URL, resp, check.Threshold, check.Behavior)>>
  /\ UNCHANGED check

\* -------------------------------------------------------- the collector

\* AddEvent: one event appended to the pending events.
AddEvent(batch, eventType, apiName) ==
  Append(batch, [eventType |-> eventType, api |-> apiName])

\* AddMetric: one metric appended to the pending metrics.
AddMetric(batch, name, apiName) ==
  Append(batch, [name |-> name, api |-> apiName])

RecordProcessingMetrics(batch, apiName) ==
  AddMetric(AddMetric(AddMetric(batch,
    "flex.processing.duration", apiName),
    "flex.processing.records", apiName),
    "flex.processing.status", apiName)

RecordStalenessMetrics(batch, apiName) ==
  AddMetric(AddMetric(AddMetric(batch,
    "flex.staleness.file_age", apiName),
    "flex.staleness.threshold", apiName),
    "flex.staleness.ratio", apiName)

\* sendSamplesToNewRelic: AddEvent for each of the n samples.
RECURSIVE sendSamplesToNewRelic(_, _, _, _)
sendSamplesToNewRelic(batch, n, eventType, apiName) ==
  IF n = 0 THEN batch
  ELSE AddEvent(sendSamplesToNewRelic(batch, n - 1, eventType, apiName),
                eventType, apiName)

\* ------------------------------------------------------------ ProcessAPIs

EmptyURL == [blank |-> TRUE, parses |-> TRUE, scheme |-> "", host |-> ""]

\* The staleness block of a source that does not enable it (zero values).
NoStaleness ==
  [Enabled |-> FALSE, Threshold |-> 0, Behavior |-> "", CheckURL |-> EmptyURL]

StalenessConfigs ==
  {NoStaleness}
  \cup [Enabled : {TRUE}, Threshold : 1..MaxThreshold, Behavior : Behaviors,
        CheckURL : CheckURLs]

\* What processJSON / processCSV make of a payload: an error, or n samples.
ParseOutcomes ==
  {[err |-> TRUE, n |-> 0]} \cup [err : {FALSE}, n : 0..MaxSamples]

\* How the endpoints of one source behave: the answer to a HEAD request on
\* its check target, whether a GET of its payload succeeds, what the payload
\* parses to, and whether processing it panics.
QuietEndpoint ==
  [head |-> NoResponse, get |-> "ok", out |-> [err |-> FALSE, n |-> 0],
   panic |-> FALSE]

Endpoints ==
  [head : HeadResponses, get : {"ok", "fail"}, out : ParseOutcomes, panic : {FALSE}]
  \cup {[QuietEndpoint EXCEPT !.panic = TRUE]}

BaseAPI(name) ==
  [Name |-> name, Enabled |-> TRUE, Format |-> "json", EventType |-> "FlexSample",
   Staleness |-> NoStaleness]

\* Every configuration of one source (a disabled source is never read beyond
\* its Enabled flag).
APIConfigs(name) ==
  [Name : {name}, Enabled : {TRUE}, Format : {"json", "CSV", "xml"},
   EventType : {"FlexSample"}, Staleness : StalenessConfigs]
  \cup {[BaseAPI(name) EXCEPT !.Enabled = FALSE]}

SkipStale == [Enabled |-> TRUE, Threshold |-> 1, Behavior |-> "skip", CheckURL |-> GoodURL]

DatedResponse(d) ==
  [transport |-> "ok", status |-> StatusOK, header |-> "date", date |-> d, delay |-> 0]

FailedResponse ==
  [transport |-> "fail", status |-> 0, header |-> "absent", date |-> ZeroTime, delay |-> 0]

OneSample == [err |-> FALSE, n |-> 1]

\* The sources of a longer list, each with the behaviour of its endpoints:
\* disabled; collected; fetch fails; stale and skipped; probe fails;
\* processing panics.
PoolSources(name) ==
  { [api |-> [BaseAPI(name) EXCEPT !.Enabled = FALSE], net |-> QuietEndpoint],
    [api |-> BaseAPI(name), net |-> [QuietEndpoint EXCEPT !.out = OneSample]],
    [api |-> BaseAPI(name), net |-> [QuietEndpoint EXCEPT !.get = "fail"]],
    [api |-> [BaseAPI(name) EXCEPT !.Staleness = SkipStale],
     net |-> [QuietEndpoint EXCEPT !.head = DatedResponse(1), !.out = OneSample]],
    [api |-> [BaseAPI(name) EXCEPT !.Staleness = SkipStale],
     net |-> [QuietEndpoint EXCEPT !.head = FailedResponse, !.out = OneSample]],
    [api |-> BaseAPI(name), net |-> [QuietEndpoint EXCEPT !.panic = TRUE]] }

\* Source lists of length n, the i-th source named i.
SourceLists(n) ==
  { l \in [1..n -> UNION { PoolSources(i) : i \in 1..n }] :
      \A i \in 1..n : l[i].api.Name = i }

NoAPI ==
  [Name |-> 0, Enabled |-> FALSE, Format |-> "", EventType |-> "",
   Staleness |-> NoStaleness]

\* &ProcessResult{APIName: name}
EmptyProcessResult(name) ==
  [APIName |-> name, RecordCount |-> 0, IsStale |-> FALSE, HasError |-> FALSE,
   Error |-> Nil]

MaxPoolWorkers == IF DefaultWorkers > MaxWorkers THEN DefaultWorkers ELSE MaxWorkers
WorkerIds == 1..MaxPoolWorkers
\* The longest list explored: MaxSources, or one source more than the default
\* worker count.
SourceIds ==
  1..(IF MaxSources > DefaultWorkers + 1 THEN MaxSources ELSE DefaultWorkers + 1)

NumWorkersNoDefault(mw) == mw

NumWorkersOneMore(mw) == IF mw <= 0 THEN DefaultWorkers ELSE mw + 1

\* if maxWorkers <= 0 { maxWorkers = 4 }
NumWorkers(mw) == IF mw <= 0 THEN DefaultWorkers ELSE mw

\* A worker's locals: the job it holds and the result to send.
IdleWorker(pc) == [pc |-> pc, api |-> NoAPI, result |-> EmptyProcessResult(0)]

PoolIdle ==
  /\ apis = << >>
  /\ maxWorkers = 1
  /\ mainPc = "idle"
  /\ nextJob = 1
  /\ jobs = << >>
  /\ jobsClosed = FALSE
  /\ results = << >>
  /\ processResults = << >>
  /\ workers = [w \in WorkerIds |-> IdleWorker("unstarted")]
  /\ crashed = FALSE
  /\ network = [i \in SourceIds |-> QuietEndpoint]
  /\ heads = [i \in SourceIds |-> 0]
  /\ gets = [i \in SourceIds |-> 0]

\* The state ProcessAPIs(list, mw) is entered in, the endpoints behaving as net.
PoolCalled(list, mw, net) ==
  /\ apis = list
  /\ maxWorkers = mw
  /\ mainPc = "start"
  /\ nextJob = 1
  /\ jobs = << >>
  /\ jobsClosed = FALSE
  /\ results = << >>
  /\ processResults = << >>
  /\ workers = [w \in WorkerIds |-> IdleWorker("unstarted")]
  /\ crashed = FALSE
  /\ network = [i \in SourceIds |-> IF i <= Len(net) THEN net[i] ELSE QuietEndpoint]
  /\ heads = [i \in SourceIds |-> 0]
  /\ gets = [i \in SourceIds |-> 0]

\* make(chan ...); for i := 0; i < maxWorkers; i++ { go func() {...}() }
StartWorkers ==
  /\ ~crashed /\ mainPc = "start"
  /\ workers' = [w \in WorkerIds |->
                   IF w <= NumWorkers(maxWorkers) THEN IdleWorker("recv")
                   ELSE workers[w]]
  /\ mainPc' = "send"
  /\ UNCHANGED <<apis, maxWorkers, nextJob, jobs, jobsClosed, results,
                 processResults, crashed, network, heads, gets, batchVars>>

\* for _, api := range apis { jobs <- api }   (cap(jobs) = len(apis))
SendJob ==
  /\ ~crashed /\ mainPc = "send"
  /\ nextJob <= Len(apis)
  /\ Len(jobs) < Len(apis)
  /\ jobs' = Append(jobs, apis[nextJob])
  /\ nextJob' = nextJob + 1
  /\ UNCHANGED <<apis, maxWorkers, mainPc, jobsClosed, results, processResults,
                 workers, crashed, network, heads, gets, batchVars>>

\* close(jobs)
CloseJobs ==
  /\ ~crashed /\ mainPc = "send"
  /\ nextJob > Len(apis)
  /\ jobsClosed' = TRUE
  /\ mainPc' = "collect"
  /\ UNCHANGED <<apis, maxWorkers, nextJob, jobs, results, processResults,
                 workers, crashed, network, heads, gets, batchVars>>

\* for i := 0; i < len(apis); i++ { result := <-results; append }
CollectResult ==
  /\ ~crashed /\ mainPc = "collect"
  /\ Len(processResults) < Len(apis)
  /\ results # << >>
  /\ processResults' = Append(processResults, Head(results))
  /\ results' = Tail(results)
  /\ UNCHANGED <<apis, maxWorkers, mainPc, nextJob, jobs, jobsClosed, workers,
                 crashed, network, heads, gets, batchVars>>

\* return processResults
ReturnResults ==
  /\ ~crashed /\ mainPc = "collect"
  /\ Len(processResults) = Len(apis)
  /\ mainPc' = "returned"
  /\ UNCHANGED <<apis, maxWorkers, nextJob, jobs, jobsClosed, results,
                 processResults, workers, crashed, network, heads, gets, batchVars>>

AfterReceiveAlwaysProcess(api) == "process"

AfterReceiveDropDisabled(api) == IF api.Enabled THEN "process" ELSE "recv"

\* if api.Enabled { result := fp.ProcessAPI(api) ... } else { results <- ... }
AfterReceive(api) == IF api.Enabled THEN "process" ELSE "send"

\* for api := range jobs: a worker takes the next job.  An enabled source
\* enters ProcessAPI; a disabled one gets an empty result.
WorkerReceive(w) ==
  /\ ~crashed /\ workers[w].pc = "recv"
  /\ jobs # << >>
  /\ LET api == Head(jobs)
         pc  == AfterReceive(api)
     IN  workers' = [workers EXCEPT ![w] =
                       [IdleWorker(pc) EXCEPT !.api = api,
                          !.result = EmptyProcessResult(api.Name)]]
  /\ jobs' = Tail(jobs)
  /\ UNCHANGED <<apis, maxWorkers, mainPc, nextJob, jobsClosed, results,
                 processResults, crashed, network, heads, gets, batchVars>>

\* The range loop ends once jobs is closed and drained.
WorkerExit(w) ==
  /\ ~crashed /\ workers[w].pc = "recv"
  /\ jobs = << >> /\ jobsClosed
  /\ workers' = [workers EXCEPT ![w] = IdleWorker("exited")]
  /\ UNCHANGED <<apis, maxWorkers, mainPc, nextJob, jobs, jobsClosed, results,
                 processResults, crashed, network, heads, gets, batchVars>>

ProbeFailedIgnored(sr) == FALSE

\* if stalenessResult.Error != nil { ... return result }
ProbeFailed(sr) == sr.Error # Nil

SkippedWhenStale(isStale, shouldSkip) == isStale

SkippedNever(isStale, shouldSkip) == FALSE

\* if result.IsStale && stalenessResult.ShouldSkip { ... return result }
Skipped(isStale, shouldSkip) == isStale /\ shouldSkip

EmittedSamplesAlways(success, n) == n

\* fp.sendSamplesToNewRelic(samples, api.EventType), reached only when no
\* step of the call has failed.
EmittedSamples(success, n) == IF success THEN n ELSE 0

StalenessRecordedWhenChecked(checked, failed) == checked

\* fp.metricsCollector.RecordStalenessMetrics(...), after the return on a
\* failed probe.
StalenessRecorded(checked, failed) == checked /\ ~failed

\* ProcessAPI(api) against endpoints that answer a HEAD request with resp and
\* a GET request with got, the payload parsing as out.  Besides the result it
\* reports what the call did: the HEAD and GET requests it issued, the events
\* it added and whether it recorded the staleness metrics.
ProcessAPI(api, resp, got, out) ==
  LET st        == api.Staleness
      checked   == st.Enabled
      sr        == IF checked
                     THEN CheckStaleness(st.CheckURL, resp, st.Threshold, st.Behavior)
                     ELSE EmptyStalenessResult(0, "")
      r0        == [EmptyProcessResult(api.Name) EXCEPT !.IsStale = sr.IsStale]
      failed    == checked /\ ProbeFailed(sr)
      skipped   == checked /\ ~failed /\ Skipped(r0.IsStale, sr.ShouldSkip)
      fetched   == ~failed /\ ~skipped
      fetchErr  == fetched /\ got = "fail"
      processed == fetched /\ ~fetchErr
      supported == ToLower(api.Format) \in {"json", "csv"}
      procErr   == processed /\ (~supported \/ out.err)
      success   == processed /\ ~procErr
      error     == IF failed THEN "staleness check failed"
                   ELSE IF fetchErr THEN "failed to fetch data"
                   ELSE IF procErr THEN "failed to process data"
                   ELSE Nil
  IN  [result |-> [r0 EXCEPT !.Error = error,
                             !.HasError = (error # Nil),
                             !.RecordCount = IF success THEN out.n ELSE 0],
       heads |-> IF checked THEN HeadRequests(st.CheckURL) ELSE 0,
       gets |-> IF fetched THEN 1 ELSE 0,
       events |-> EmittedSamples(success, out.n),
       stalenessMetrics |-> StalenessRecorded(checked, failed)]

\* result := fp.ProcessAPI(api): the whole call, as one step of its worker.
\* Every AddMetric/AddEvent of the call is one critical section of the batch
\* lock; the order in which different workers' entries reach the batch is not
\* read by any operation, so the entries of one call are appended together.
WorkerProcessAPI(w) ==
  /\ ~crashed /\ workers[w].pc = "process"
  /\ LET api == workers[w].api
         net == network[api.Name]
         run == ProcessAPI(api, net.head, net.get, net.out)
         m1  == IF run.stalenessMetrics
                  THEN RecordStalenessMetrics(metricBatch, api.Name)
                  ELSE metricBatch
     IN  /\ ~net.panic
         /\ workers' = [workers EXCEPT ![w].result = run.result, ![w].pc = "send"]
         /\ heads' = [heads EXCEPT ![api.Name] = @ + run.heads]
         /\ gets' = [gets EXCEPT ![api.Name] = @ + run.gets]
         /\ eventBatch' = sendSamplesToNewRelic(eventBatch, run.events,
                                                api.EventType, api.Name)
         /\ metricBatch' = RecordProcessingMetrics(m1, api.Name)
  /\ UNCHANGED <<apis, maxWorkers, mainPc, nextJob, jobs, jobsClosed, results,
                 processResults, crashed, network>>

\* A panic inside ProcessAPI.  The worker goroutine defers no recover, so the
\* Go runtime ends the whole process: nothing runs afterwards.
WorkerPanic(w) ==
  /\ ~crashed /\ workers[w].pc = "process"
  /\ network[workers[w].api.Name].panic
  /\ crashed' = TRUE
  /\ UNCHANGED <<apis, maxWorkers, mainPc, nextJob, jobs, jobsClosed, results,
                 processResults, workers, network, heads, gets, batchVars>>

\* results <- result   (cap(results) = len(apis))
WorkerSend(w) ==
  /\ ~crashed /\ workers[w].pc = "send"
  /\ Len(results) < Len(apis)
  /\ results' = Append(results, workers[w].result)
  /\ workers' = [workers EXCEPT ![w] = IdleWorker("recv")]
  /\ UNCHANGED <<apis, maxWorkers, mainPc, nextJob, jobs, jobsClosed,
                 processResults, crashed, network, heads, gets, batchVars>>

\* ------------------------------------- the collector and its batch lock

Free == 0
\* Two threads call AddEvent/AddMetric.
ProducerIds == {1, 2}
FlusherId == Cardinality(ProducerIds) + 1

\* The k-th entry (k = 1..MaxAdds) producer p adds.
EntryId(p, k) == (p - 1) * MaxAdds + k

IdleFlusher(done) ==
  [pc |-> "idle", events |-> << >>, metrics |-> << >>, errors |-> << >>,
   evOutcome |-> "none", meOutcome |-> "none", evCalls |-> 0, meCalls |-> 0,
   ret |-> Nil, done |-> done]

BatchIdle ==
  /\ batchMutex = Free
  /\ producers = [p \in ProducerIds |-> [pc |-> "done", kind |-> "event", added |-> 0]]
  /\ flusher = IdleFlusher(0)
  /\ flushedEvents = << >>
  /\ flushedMetrics = << >>

LockAvailableAmongProducers(holder) == holder = Free \/ holder \in ProducerIds

LockAvailableAlways(holder) == TRUE

\* c.batchMutex.Lock() returns only once nobody holds the mutex.
LockAvailable(holder) == holder = Free

\* AddEvent / AddMetric: c.batchMutex.Lock()
AddLock(p) ==
  /\ producers[p].pc = "call"
  /\ LockAvailable(batchMutex)
  /\ batchMutex' = p
  /\ \E kind \in {"event", "metric"} :
       producers' = [producers EXCEPT ![p].pc = "locked", ![p].kind = kind]
  /\ UNCHANGED <<eventBatch, metricBatch, flusher, flushedEvents, flushedMetrics>>

\* AddEvent / AddMetric: the append, then the deferred Unlock.
AddAppend(p) ==
  /\ producers[p].pc = "locked"
  /\ batchMutex = p
  /\ LET id == EntryId(p, producers[p].added + 1)
     IN  IF producers[p].kind = "event"
           THEN /\ eventBatch' = AddEvent(eventBatch, "FlexSample", id)
                /\ UNCHANGED metricBatch
           ELSE /\ metricBatch' = AddMetric(metricBatch, "flex.cycle.records", id)
                /\ UNCHANGED eventBatch
  /\ batchMutex' = Free
  /\ producers' = [producers EXCEPT
                     ![p].added = @ + 1,
                     ![p].pc = IF producers[p].added + 1 < MaxAdds THEN "call" ELSE "done"]
  /\ UNCHANGED <<flusher, flushedEvents, flushedMetrics>>

\* SendBatch is entered: var errors []error
SendBatchCall ==
  /\ flusher.pc = "idle"
  /\ flusher.done < MaxFlushes
  /\ flusher' = [IdleFlusher(flusher.done) EXCEPT !.pc = "ev_lock"]
  /\ UNCHANGED <<batchVars, batchMutex, producers, flushedEvents, flushedMetrics>>

\* SendEvents: c.batchMutex.Lock()
SendEventsLock ==
  /\ flusher.pc = "ev_lock"
  /\ LockAvailable(batchMutex)
  /\ batchMutex' = FlusherId
  /\ flusher' = [flusher EXCEPT !.pc = "ev_swap", !.evCalls = @ + 1]
  /\ UNCHANGED <<batchVars, producers, flushedEvents, flushedMetrics>>

HolderAfterSwapDeferred == FlusherId

\* c.batchMutex.Unlock() right after the batch is cleared.
HolderAfterSwap == Free

ClearedKeepsBatch(batch) == batch

\* c.eventBatch = c.eventBatch[:0]
Cleared(batch) == << >>

AfterSendEventsRetry(err) == IF err # Nil THEN "ev_http" ELSE "me_lock"

AfterSendEventsStopOnError(err) == IF err # Nil THEN "ret" ELSE "me_lock"

\* SendBatch goes on to SendMetrics whatever SendEvents returned.
AfterSendEvents(err) == "me_lock"

\* SendEvents: copy the batch, clear it, Unlock; nothing to send when empty.
SendEventsSwap ==
  /\ flusher.pc = "ev_swap"
  /\ batchMutex = FlusherId
  /\ flushedEvents' = flushedEvents \o eventBatch
  /\ eventBatch' = Cleared(eventBatch)
  /\ batchMutex' = HolderAfterSwap
  /\ flusher' = IF Len(eventBatch) = 0
                  THEN [flusher EXCEPT !.events = << >>, !.evOutcome = "empty",
                                       !.pc = AfterSendEvents(Nil)]
                  ELSE [flusher EXCEPT !.events = eventBatch, !.pc = "ev_marshal"]
  /\ UNCHANGED <<metricBatch, producers, flushedMetrics>>

\* The error SendEvents / SendMetrics returns for an outcome.
SendError(outcome) ==
  CASE outcome = "marshal failed" -> "failed to marshal"
    [] outcome = "request failed" -> "failed to send"
    [] outcome = "bad status" -> "API returned status"
    [] OTHER -> Nil

\* SendBatch: errors = append(errors, fmt.Errorf("events: %w", err))
Collected(errors, what, err) ==
  IF err # Nil THEN Append(errors, what) ELSE errors

\* SendEvents: json.Marshal(events)
SendEventsMarshal ==
  /\ flusher.pc = "ev_marshal"
  /\ \E ok \in BOOLEAN :
       flusher' = IF ok THEN [flusher EXCEPT !.pc = "ev_http"]
                  ELSE [flusher EXCEPT
                          !.evOutcome = "marshal failed",
                          !.errors = Collected(@, "events", SendError("marshal failed")),
                          !.pc = AfterSendEvents(SendError("marshal failed"))]
  /\ UNCHANGED <<batchVars, batchMutex, producers, flushedEvents, flushedMetrics>>

\* SendEvents: c.client.Do(req) and the status check.
SendEventsPost ==
  /\ flusher.pc = "ev_http"
  /\ \E outcome \in {"ok", "request failed", "bad status"} :
       flusher' = [flusher EXCEPT
                     !.evOutcome = outcome,
                     !.errors = Collected(@, "events", SendError(outcome)),
                     !.pc = AfterSendEvents(SendError(outcome))]
  /\ UNCHANGED <<batchVars, batchMutex, producers, flushedEvents, flushedMetrics>>

\* SendMetrics: c.batchMutex.Lock()
SendMetricsLock ==
  /\ flusher.pc = "me_lock"
  /\ LockAvailable(batchMutex)
  /\ batchMutex' = FlusherId
  /\ flusher' = [flusher EXCEPT !.pc = "me_swap", !.meCalls = @ + 1]
  /\ UNCHANGED <<batchVars, producers, flushedEvents, flushedMetrics>>

\* SendMetrics: copy the batch, clear it, Unlock; nothing to send when empty.
SendMetricsSwap ==
  /\ flusher.pc = "me_swap"
  /\ batchMutex = FlusherId
  /\ flushedMetrics' = flushedMetrics \o metricBatch
  /\ metricBatch' = Cleared(metricBatch)
  /\ batchMutex' = HolderAfterSwap
  /\ flusher' = IF Len(metricBatch) = 0
                  THEN [flusher EXCEPT !.metrics = << >>, !.meOutcome = "empty",
                                       !.pc = "ret"]
                  ELSE [flusher EXCEPT !.metrics = metricBatch, !.pc = "me_marshal"]
  /\ UNCHANGED <<eventBatch, producers, flushedEvents>>

\* SendMetrics: json.Marshal(payload)
SendMetricsMarshal ==
  /\ flusher.pc = "me_marshal"
  /\ \E ok \in BOOLEAN :
       flusher' = IF ok THEN [flusher EXCEPT !.pc = "me_http"]
                  ELSE [flusher EXCEPT
                          !.meOutcome = "marshal failed",
                          !.errors = Collected(@, "metrics", SendError("marshal failed")),
                          !.pc = "ret"]
  /\ UNCHANGED <<batchVars, batchMutex, producers, flushedEvents, flushedMetrics>>

\* SendMetrics: c.client.Do(req) and the status check.
SendMetricsPost ==
  /\ flusher.pc = "me_http"
  /\ \E outcome \in {"ok", "request failed", "bad status"} :
       flusher' = [flusher EXCEPT
                     !.meOutcome = outcome,
                     !.errors = Collected(@, "metrics", SendError(outcome)),
                     !.pc = "ret"]
  /\ UNCHANGED <<batchVars, batchMutex, producers, flushedEvents, flushedMetrics>>

\* SendBatch: if len(errors) > 0 { return fmt.Errorf(...) }; return nil
SendBatchReturn ==
  /\ flusher.pc = "ret"
  /\ flusher' = [flusher EXCEPT
                   !.ret = IF Len(flusher.errors) > 0 THEN "batch send failed" ELSE Nil,
                   !.pc = "idle",
                   !.done = @ + 1]
  /\ UNCHANGED <<batchVars, batchMutex, producers, flushedEvents, flushedMetrics>>

\* ------------------------------------------------------ the alert manager

\* config.AlertChannel.  Target: Settings["url"] (webhook) or
\* Settings["webhook_url"] (slack) is a valid http(s) URL, absent, or
\* malformed.  Level: Settings["level"], "" when absent.
Channel(name, type, enabled, target, level) ==
  [Name |-> name, Type |-> type, Enabled |-> enabled, Target |-> target,
   Level |-> level]

\* A channel together with the way its endpoint answers a POST: "ok", a
\* transport error, or a status outside the accepted ones.
AlertSinks(name) ==
  { [ch |-> Channel(name, "webhook", TRUE, "valid", ""), net |-> r] :
      r \in {"ok", "error", "bad status"} }
  \cup { [ch |-> Channel(name, "webhook", TRUE, t, ""), net |-> "ok"] :
           t \in {"absent", "invalid"} }
  \cup { [ch |-> Channel(name, "slack", TRUE, "valid", ""), net |-> r] :
           r \in {"ok", "bad status"} }
  \cup { [ch |-> Channel(name, "log", TRUE, "valid", l), net |-> "ok"] :
           l \in {"", "error", "fatal"} }
  \cup { [ch |-> Channel(name, "LOG", TRUE, "valid", ""), net |-> "ok"] }
  \cup { [ch |-> Channel(name, t, FALSE, "valid", l), net |-> "ok"] :
           t \in {"webhook"}, l \in {"", "fatal"} }

\* Channel lists of length n, the i-th channel named i.
SinkLists(n) ==
  { l \in [1..n -> UNION { AlertSinks(i) : i \in 1..n }] :
      \A i \in 1..n : l[i].ch.Name = i }

ChannelIds == 1..MaxChannels

\* channel.Settings of a webhook channel.  "url" is absent, or a URL as
\* strings.TrimSpace and url.Parse see it; apiKey and token tell whether
\* "api_key" and "token" are set.
NoURLSetting == [present |-> FALSE, url |-> EmptyURL, apiKey |-> FALSE, token |-> FALSE]
URLSetting(u) == [present |-> TRUE, url |-> u, apiKey |-> FALSE, token |-> FALSE]
WebhookSettings ==
  { [st EXCEPT !.apiKey = k, !.token = t] :
      st \in {NoURLSetting} \cup { URLSetting(u) : u \in CheckURLs },
      k \in BOOLEAN, t \in BOOLEAN }

validateWebhookURLAnyHost(u) ==
  IF u.blank THEN "webhook URL cannot be empty"
  ELSE IF ~u.parses THEN "invalid webhook URL format"
  ELSE IF u.scheme = "" THEN "webhook URL must include a scheme"
  ELSE IF u.scheme # "http" /\ u.scheme # "https" THEN "unsupported webhook URL scheme"
  ELSE Nil

validateWebhookURL(u) ==
  IF u.blank THEN "webhook URL cannot be empty"
  ELSE IF ~u.parses THEN "invalid webhook URL format"
  ELSE IF u.scheme = "" THEN "webhook URL must include a scheme"
  ELSE IF u.scheme # "http" /\ u.scheme # "https" THEN "unsupported webhook URL scheme"
  ELSE IF u.host = "" THEN "webhook URL must include a host"
  ELSE Nil

\* The body of sendWebhook on the channel's settings: the error it returns
\* (Nil for none), the POST requests it hands to m.client.Do and the
\* authentication headers of the request.
webhookDelivery(setting, resp) ==
  LET auth == (IF setting.apiKey THEN {"Authorization"} ELSE {})
              \cup (IF setting.token THEN {"X-Auth-Token"} ELSE {})
  IN  IF ~setting.present
        THEN [err |-> "webhook URL not configured", posts |-> 0, auth |-> {}]
      ELSE IF validateWebhookURL(setting.url) # Nil
        THEN [err |-> "invalid webhook URL", posts |-> 0, auth |-> {}]
      ELSE IF resp = "error"
        THEN [err |-> "failed to send webhook", posts |-> 1, auth |-> auth]
      ELSE IF resp = "bad status"
        THEN [err |-> "webhook returned status", posts |-> 1, auth |-> auth]
      ELSE [err |-> Nil, posts |-> 1, auth |-> auth]

\* The "url" setting behind a channel's Target.
TargetSetting(target) ==
  CASE target = "absent" -> NoURLSetting
    [] target = "invalid" -> URLSetting([GoodURL EXCEPT !.scheme = "", !.host = ""])
    [] OTHER -> URLSetting(GoodURL)

\* sendWebhook: the error it returns, Nil for none.
sendWebhook(ch, resp) == webhookDelivery(TargetSetting(ch.Target), resp).err

HookIdle ==
  /\ hook = [setting |-> NoURLSetting, net |-> "ok"]
  /\ hookResult = << >>

\* m.sendWebhook(alert, channel), once.
SendWebhookCall ==
  /\ hookResult = << >>
  /\ hookResult' = <<webhookDelivery(hook.setting, hook.net)>>
  /\ UNCHANGED hook

\* sendSlack: the error it returns, Nil for none.
sendSlack(ch, resp) ==
  IF ch.Target = "absent" THEN "Slack webhook URL not configured"
  ELSE IF ch.Target = "invalid" THEN "failed to create Slack request"
  ELSE IF resp = "error" THEN "failed to send Slack message"
  ELSE IF resp = "bad status" THEN "Slack webhook returned status"
  ELSE Nil

\* logEntry.Fatal writes the entry and then calls os.Exit(1).
Exit == "exit"

\* sendLog: level defaults to "warn"; every level but "fatal" logs and
\* returns nil.
sendLog(ch) ==
  LET level == IF ch.Level = "" THEN "warn" ELSE ch.Level
  IN  IF level = "fatal" THEN Exit ELSE Nil

\* sendToChannel: switch channel.Type, matched exactly.
sendToChannel(ch, resp) ==
  CASE ch.Type = "webhook" -> sendWebhook(ch, resp)
    [] ch.Type = "slack" -> sendSlack(ch, resp)
    [] ch.Type = "log" -> sendLog(ch)
    [] OTHER -> "unsupported alert channel type"

NoAlert == [Type |-> "", Source |-> 0]

\* Manager.TestChannels: the alert it sends.
TestAlert == [Type |-> "test", Source |-> 0]

AlertCallIdle ==
  [pc |-> "idle", alert |-> NoAlert, i |-> 1, errors |-> << >>, ret |-> Nil]

\* SendAlert(alert) is entered: with no channels it returns nil at once.
SendAlertEntered(alert, chans) ==
  [AlertCallIdle EXCEPT !.alert = alert,
                        !.pc = IF Len(chans) = 0 THEN "returned" ELSE "loop"]

AlertIdle ==
  /\ channels = << >>
  /\ alertNet = [i \in ChannelIds |-> "ok"]
  /\ alertCall = AlertCallIdle
  /\ attempts = << >>
  /\ exited = FALSE

\* NewManager(chans, logger), then SendAlert(alert) is called on it.
AlertCalled(chans, net, alert) ==
  /\ channels = chans
  /\ alertNet = [i \in ChannelIds |-> IF i <= Len(net) THEN net[i] ELSE "ok"]
  /\ alertCall = SendAlertEntered(alert, chans)
  /\ attempts = << >>
  /\ exited = FALSE

AlertReturnNever(errors) == Nil

\* if len(errors) > 0 { return fmt.Errorf("failed to send alert to %d channels ...") }
AlertReturn(errors) ==
  IF Len(errors) > 0 THEN "failed to send alert to channels" ELSE Nil

\* One iteration of `for _, channel := range m.channels`: a disabled channel
\* is passed over; an enabled one is handed to sendToChannel and its error,
\* if any, is appended to errors.  A fatal-level log channel ends the process.
SendAlertChannel ==
  /\ ~exited /\ ~crashed
  /\ alertCall.pc = "loop"
  /\ alertCall.i <= Len(channels)
  /\ LET ch  == channels[alertCall.i]
         err == sendToChannel(ch, alertNet[alertCall.i])
     IN  IF ~ch.Enabled
           THEN /\ alertCall' = [alertCall EXCEPT !.i = @ + 1]
                /\ UNCHANGED <<attempts, exited>>
           ELSE /\ attempts' = Append(attempts, [channel |-> ch.Name,
                                                  alert |-> alertCall.alert])
                /\ exited' = (err = Exit)
                /\ alertCall' =
                     IF err = Exit THEN alertCall
                     ELSE [alertCall EXCEPT
                             !.i = @ + 1,
                             !.errors = IF err # Nil THEN Append(@, ch.Name) ELSE @]
  /\ UNCHANGED <<channels, alertNet>>

\* The loop is over: the aggregate error, or nil.
SendAlertReturn ==
  /\ ~exited /\ ~crashed
  /\ alertCall.pc = "loop"
  /\ alertCall.i > Len(channels)
  /\ alertCall' = [alertCall EXCEPT !.pc = "returned",
                                    !.ret = AlertReturn(alertCall.errors)]
  /\ UNCHANGED <<channels, alertNet, attempts, exited>>

\* ---------------------------------------------- Application.processAPIs

\* config.Config: the global switches, the worker count and the sources.
AppConfig(metrics, alerts, workerCount, list) ==
  [EnableMetrics |-> metrics, EnableAlerts |-> alerts,
   WorkerCount |-> workerCount, APIs |-> list]

GetAllAPIs(list) == list

\* Config.GetEnabledAPIs: the enabled sources, in configuration order.
RECURSIVE GetEnabledAPIs(_)
GetEnabledAPIs(list) ==
  IF list = << >> THEN << >>
  ELSE IF Head(list).Enabled THEN <<Head(list)>> \o GetEnabledAPIs(Tail(list))
  ELSE GetEnabledAPIs(Tail(list))

\* The locals of processAPIs: the result being analysed, the aggregates, and
\* (for the record) the alerts it has sent and the flushes it has made.
CycleIdle ==
  [pc |-> "idle", i |-> 1, totalRecords |-> 0, errors |-> 0, staleCount |-> 0,
   alerts |-> << >>, flushes |-> 0]

AppIdle ==
  /\ config = AppConfig(FALSE, FALSE, 1, << >>)
  /\ cycle = CycleIdle

\* fp.ProcessAPIs(list, mw) is entered: new channels, no worker started yet.
\* Workers of an earlier call that have not yet left their range loop hold
\* the earlier call's closed channel and can only exit; they are dropped.
ProcessAPIsCall(list, mw) ==
  /\ apis' = list
  /\ maxWorkers' = mw
  /\ mainPc' = "start"
  /\ nextJob' = 1
  /\ jobs' = << >>
  /\ jobsClosed' = FALSE
  /\ results' = << >>
  /\ processResults' = << >>
  /\ workers' = [w \in WorkerIds |-> IdleWorker("unstarted")]
  /\ UNCHANGED <<crashed, network, heads, gets>>

\* processAPIs up to the ProcessAPIs call; it returns at once when no source
\* is enabled.
CycleStart ==
  /\ cycle.pc = "start"
  /\ LET enabledAPIs == GetEnabledAPIs(config.APIs)
     IN  IF Len(enabledAPIs) = 0
           THEN /\ cycle' = [cycle EXCEPT !.pc = "done"]
                /\ UNCHANGED poolVars
           ELSE /\ cycle' = [cycle EXCEPT !.pc = "pool"]
                /\ ProcessAPIsCall(enabledAPIs, config.WorkerCount)
  /\ UNCHANGED <<config, batchVars, lockVars, alertVars>>

ResultsReadyEarly == mainPc \in {"collect", "returned"}

\* results := app.fileProcessor.ProcessAPIs(...) has returned.
ResultsReady == mainPc = "returned"

\* The results are in hand: the analysis loop begins.
CycleResults ==
  /\ cycle.pc = "pool"
  /\ ResultsReady
  /\ cycle' = [cycle EXCEPT !.pc = "analyze", !.i = 1]
  /\ UNCHANGED <<config, poolVars, batchVars, lockVars, alertVars>>

ErrorAlert(name) == [Type |-> "error", Source |-> name]
StalenessAlert(name) == [Type |-> "file_staleness", Source |-> name]
HealthAlert == [Type |-> "health_check", Source |-> 0]

StaleCountedNever(result) == FALSE

\* if result.IsStale { staleCount++ }
StaleCounted(result) == result.IsStale

\* One iteration of `for _, result := range results`, up to the error alert:
\* the aggregates, and SendErrorAlert when the result carries an error and
\* alerts are enabled.  Past the last result the loop ends.
CycleAnalyze ==
  /\ cycle.pc = "analyze"
  /\ IF cycle.i > Len(processResults)
       THEN /\ cycle' = [cycle EXCEPT !.pc = "metrics"]
            /\ UNCHANGED alertVars
       ELSE LET result == processResults[cycle.i]
                failed == result.HasError /\ result.Error # Nil
                c1     == [cycle EXCEPT
                             !.totalRecords = @ + result.RecordCount,
                             !.staleCount = IF StaleCounted(result) THEN @ + 1 ELSE @,
                             !.errors = IF failed THEN @ + 1 ELSE @]
            IN  IF failed /\ config.EnableAlerts
                  THEN /\ cycle' = [c1 EXCEPT
                                      !.pc = "error_alert",
                                      !.alerts = Append(@, ErrorAlert(result.APIName))]
                       /\ alertCall' = SendAlertEntered(ErrorAlert(result.APIName), channels)
                       /\ UNCHANGED <<channels, alertNet, attempts, exited>>
                  ELSE /\ cycle' = [c1 EXCEPT !.pc = "stale_check"]
                       /\ UNCHANGED alertVars
  /\ UNCHANGED <<config, poolVars, batchVars, lockVars>>

\* SendErrorAlert has returned (its error is dropped).
CycleErrorAlerted ==
  /\ cycle.pc = "error_alert"
  /\ alertCall.pc = "returned"
  /\ alertCall' = AlertCallIdle
  /\ cycle' = [cycle EXCEPT !.pc = "stale_check"]
  /\ UNCHANGED <<config, poolVars, batchVars, lockVars, channels, alertNet,
                 attempts, exited>>

AlertBehaviorAny(api) == TRUE

\* api.Staleness.Behavior == "alert"
AlertBehavior(api) == api.Staleness.Behavior = "alert"

\* for _, api := range enabledAPIs { if api.Name == result.APIName && ... }
StalenessAlertDue(result, enabledAPIs) ==
  \E k \in 1..Len(enabledAPIs) :
    enabledAPIs[k].Name = result.APIName /\ AlertBehavior(enabledAPIs[k])

\* The rest of the iteration: SendStalenessAlert when the result is stale,
\* alerts are enabled and the source's behaviour is "alert".
CycleStaleCheck ==
  /\ cycle.pc = "stale_check"
  /\ LET result == processResults[cycle.i]
     IN  IF /\ result.IsStale /\ config.EnableAlerts
            /\ StalenessAlertDue(result, GetEnabledAPIs(config.APIs))
           THEN /\ cycle' = [cycle EXCEPT
                               !.pc = "stale_alert",
                               !.alerts = Append(@, StalenessAlert(result.APIName))]
                /\ alertCall' = SendAlertEntered(StalenessAlert(result.APIName), channels)
                /\ UNCHANGED <<channels, alertNet, attempts, exited>>
           ELSE /\ cycle' = [cycle EXCEPT !.pc = "analyze", !.i = @ + 1]
                /\ UNCHANGED alertVars
  /\ UNCHANGED <<config, poolVars, batchVars, lockVars>>

\* SendStalenessAlert has returned (its error is dropped).
CycleStaleAlerted ==
  /\ cycle.pc = "stale_alert"
  /\ alertCall.pc = "returned"
  /\ alertCall' = AlertCallIdle
  /\ cycle' = [cycle EXCEPT !.pc = "analyze", !.i = @ + 1]
  /\ UNCHANGED <<config, poolVars, batchVars, lockVars, channels, alertNet,
                 attempts, exited>>

\* sendCycleMetrics: four AddMetric calls.
sendCycleMetrics(batch) ==
  AddMetric(AddMetric(AddMetric(AddMetric(batch,
    "flex.cycle.duration", 0),
    "flex.cycle.records", 0),
    "flex.cycle.errors", 0),
    "flex.cycle.stale_files", 0)

\* if app.config.Global.EnableMetrics { app.sendCycleMetrics(...); SendBatch }
CycleMetrics ==
  /\ cycle.pc = "metrics"
  /\ IF config.EnableMetrics
       THEN /\ batchMutex = Free
            /\ metricBatch' = sendCycleMetrics(metricBatch)
            /\ cycle' = [cycle EXCEPT !.pc = "flush"]
       ELSE /\ cycle' = [cycle EXCEPT !.pc = "done"]
            /\ UNCHANGED metricBatch
  /\ UNCHANGED <<config, poolVars, eventBatch, lockVars, alertVars>>

\* app.metricsCollector.SendBatch() is called.
CycleSendBatch ==
  /\ cycle.pc = "flush"
  /\ SendBatchCall
  /\ cycle' = [cycle EXCEPT !.pc = "flushing"]
  /\ UNCHANGED <<config, poolVars, alertVars>>

\* SendBatch has returned (its error is logged); processAPIs returns.
CycleFlushed ==
  /\ cycle.pc = "flushing"
  /\ flusher.pc = "idle"
  /\ flusher' = IdleFlusher(0)
  /\ cycle' = [cycle EXCEPT !.pc = "done", !.flushes = @ + 1]
  /\ UNCHANGED <<config, poolVars, batchVars, batchMutex, producers,
                 flushedEvents, flushedMetrics, alertVars>>

\* ------------------------------------------------------------ processCSV

\* A tabular payload as csv.Reader reads it: the field count of each record
\* in turn (blank lines and comment lines are not records).
CSVPayloads == UNION { [1..n -> 1..MaxCols] : n \in 0..MaxRows }

\* csv.Reader.ReadAll with FieldsPerRecord = 0, the value csv.NewReader
\* leaves: the first record sets the expected field count, and a later
\* record with another count ends the read with ErrFieldCount.
ReadAll(data) ==
  IF \E k \in 1..Len(data) : data[k] # data[1]
    THEN [records |-> << >>, err |-> "wrong number of fields"]
    ELSE [records |-> data, err |-> Nil]

\* for i, record := range records[1:] { ... }, up to data row n: a record
\* whose length differs from the header's is skipped, any other becomes a
\* sample.
RECURSIVE csvSamples(_, _)
csvSamples(records, n) ==
  IF n <= 1 THEN << >>
  ELSE IF records[n] # records[1]
    THEN csvSamples(records, n - 1)
  ELSE Append(csvSamples(records, n - 1), [row |-> n, fields |-> records[n]])

processCSV(data) ==
  LET read == ReadAll(data)
  IN  IF read.err # Nil
        THEN [samples |-> << >>, err |-> "failed to parse CSV"]
      ELSE IF Len(read.records) = 0
        THEN [samples |-> << >>, err |-> Nil]
      ELSE [samples |-> csvSamples(read.records, Len(read.records)), err |-> Nil]

CSVIdle ==
  /\ csvData = << >>
  /\ csvResult = << >>

\* fp.processCSV(data, api), once.
ProcessCSVCall ==
  /\ csvResult = << >>
  /\ csvResult' = <<processCSV(csvData)>>
  /\ UNCHANGED csvData

\* -------------------------------------------------------- Application.run

\* No Application is running.
RunIdle ==
  /\ runPc = "idle"
  /\ ticker = [running |-> FALSE, c |-> 0, fired |-> 0]
  /\ sigState = "none"
  /\ httpServer = [pc |-> "unstarted", shuttingDown |-> FALSE]
  /\ wg = 0
  /\ activeCycles = 0
  /\ finalFlushes = 0

\* app.processAPIs() is called.
BeginCycle ==
  /\ cycle' = [CycleIdle EXCEPT !.pc = "start"]
  /\ activeCycles' = activeCycles + 1

\* run up to the startup alert: time.NewTicker, app.wg.Add(1), the HTTP
\* server goroutine, and SendHealthAlert("started") when alerts are enabled.
RunStart ==
  /\ runPc = "start"
  /\ ticker' = [ticker EXCEPT !.running = TRUE]
  /\ wg' = wg + 1
  /\ httpServer' = [httpServer EXCEPT !.pc = "starting"]
  /\ IF config.EnableAlerts
       THEN /\ alertCall' = SendAlertEntered(HealthAlert, channels)
            /\ runPc' = "startup_alert"
       ELSE /\ runPc' = "initial"
            /\ UNCHANGED alertCall
  /\ UNCHANGED <<appVars, poolVars, batchVars, lockVars, channels, alertNet,
                 attempts, exited, sigState, activeCycles, finalFlushes>>

\* SendHealthAlert("started") has returned (its error is dropped).
RunStartupAlerted ==
  /\ runPc = "startup_alert"
  /\ alertCall.pc = "returned"
  /\ alertCall' = AlertCallIdle
  /\ runPc' = "initial"
  /\ UNCHANGED <<appVars, poolVars, batchVars, lockVars, channels, alertNet,
                 attempts, exited, ticker, sigState, httpServer, wg,
                 activeCycles, finalFlushes>>

\* // Initial processing: app.processAPIs()
RunInitial ==
  /\ runPc = "initial"
  /\ BeginCycle
  /\ runPc' = "cycle"
  /\ UNCHANGED <<config, poolVars, batchVars, lockVars, alertVars, ticker,
                 sigState, httpServer, wg, finalFlushes>>

\* app.processAPIs() has returned: run reaches the select statement.
RunCycleReturned ==
  /\ runPc = "cycle"
  /\ cycle.pc = "done"
  /\ cycle' = CycleIdle
  /\ activeCycles' = activeCycles - 1
  /\ runPc' = "select"
  /\ UNCHANGED <<config, poolVars, batchVars, lockVars, alertVars, ticker,
                 sigState, httpServer, wg, finalFlushes>>

TickReceivableAnytime == runPc \in {"select", "cycle"}

\* run receives from ticker.C only in its select statement.
TickReceivable == runPc = "select"

\* case <-ticker.C: app.processAPIs()
SelectTick ==
  /\ TickReceivable
  /\ ticker.c = 1
  /\ ticker' = [ticker EXCEPT !.c = 0]
  /\ BeginCycle
  /\ runPc' = "cycle"
  /\ UNCHANGED <<config, poolVars, batchVars, lockVars, alertVars, sigState,
                 httpServer, wg, finalFlushes>>

\* case <-app.ctx.Done(): app.shutdown(), up to the final SendBatch, which
\* is made when metrics are enabled.
SelectDone ==
  /\ runPc = "select"
  /\ sigState = "cancelled"
  /\ IF config.EnableMetrics
       THEN /\ SendBatchCall
            /\ finalFlushes' = finalFlushes + 1
            /\ runPc' = "final_flush"
       ELSE /\ runPc' = "stop_http"
            /\ UNCHANGED <<batchVars, lockVars, finalFlushes>>
  /\ UNCHANGED <<appVars, poolVars, alertVars, ticker, sigState, httpServer,
                 wg, activeCycles>>

\* shutdown: the final SendBatch has returned (its error is logged).
ShutdownFlushed ==
  /\ runPc = "final_flush"
  /\ flusher.pc = "idle"
  /\ flusher' = IdleFlusher(0)
  /\ runPc' = "stop_http"
  /\ UNCHANGED <<appVars, poolVars, batchVars, batchMutex, producers,
                 flushedEvents, flushedMetrics, alertVars, ticker, sigState,
                 httpServer, wg, activeCycles, finalFlushes>>

\* shutdown: app.httpServer.Stop(shutdownCtx), then SendHealthAlert("stopped")
\* when alerts are enabled.
ShutdownStopHTTP ==
  /\ runPc = "stop_http"
  /\ httpServer' = [httpServer EXCEPT !.shuttingDown = TRUE]
  /\ IF config.EnableAlerts
       THEN /\ alertCall' = SendAlertEntered(HealthAlert, channels)
            /\ runPc' = "shutdown_alert"
       ELSE /\ runPc' = "wait"
            /\ UNCHANGED alertCall
  /\ UNCHANGED <<appVars, poolVars, batchVars, lockVars, channels, alertNet,
                 attempts, exited, ticker, sigState, wg, activeCycles,
                 finalFlushes>>

\* SendHealthAlert("stopped") has returned.
ShutdownAlerted ==
  /\ runPc = "shutdown_alert"
  /\ alertCall.pc = "returned"
  /\ alertCall' = AlertCallIdle
  /\ runPc' = "wait"
  /\ UNCHANGED <<appVars, poolVars, batchVars, lockVars, channels, alertNet,
                 attempts, exited, ticker, sigState, httpServer, wg,
                 activeCycles, finalFlushes>>

\* app.wg.Wait() returns, shutdown returns, run returns and its deferred
\* ticker.Stop() runs.
ShutdownWait ==
  /\ runPc = "wait"
  /\ wg = 0
  /\ ticker' = [ticker EXCEPT !.running = FALSE]
  /\ runPc' = "returned"
  /\ UNCHANGED <<appVars, poolVars, batchVars, lockVars, alertVars, sigState,
                 httpServer, wg, activeCycles, finalFlushes>>

\* The HTTP server goroutine: Start() calls ListenAndServe, which serves,
\* fails to listen, or returns ErrServerClosed when Shutdown was called
\* first; when Start returns, the deferred app.wg.Done() runs.
HTTPListen ==
  /\ httpServer.pc = "starting"
  /\ \/ /\ ~httpServer.shuttingDown
        /\ httpServer' = [httpServer EXCEPT !.pc = "serving"]
        /\ UNCHANGED wg
     \/ /\ httpServer' = [httpServer EXCEPT !.pc = "done"]
        /\ wg' = wg - 1
  /\ UNCHANGED <<appVars, poolVars, batchVars, lockVars, alertVars, runPc,
                 ticker, sigState, activeCycles, finalFlushes>>

\* ListenAndServe returns ErrServerClosed after Shutdown: Start returns nil.
HTTPServerClosed ==
  /\ httpServer.pc = "serving"
  /\ httpServer.shuttingDown
  /\ httpServer' = [httpServer EXCEPT !.pc = "done"]
  /\ wg' = wg - 1
  /\ UNCHANGED <<appVars, poolVars, batchVars, lockVars, alertVars, runPc,
                 ticker, sigState, activeCycles, finalFlushes>>

\* The ticker fires: the tick is put in ticker.C (capacity 1), or dropped
\* when the earlier tick has not been received.
TickFire ==
  /\ ticker.running
  /\ ticker.fired < MaxTicks
  /\ ticker' = [ticker EXCEPT !.c = 1, !.fired = @ + 1]
  /\ UNCHANGED <<appVars, poolVars, batchVars, lockVars, alertVars, runPc,
                 sigState, httpServer, wg, activeCycles, finalFlushes>>

\* os.Interrupt or SIGTERM is delivered to the channel of signal.Notify.
SignalNotify ==
  /\ sigState = "none"
  /\ sigState' = "notified"
  /\ UNCHANGED <<appVars, poolVars, batchVars, lockVars, alertVars, runPc,
                 ticker, httpServer, wg, activeCycles, finalFlushes>>

\* The goroutine of setupGracefulShutdown: sig := <-c; app.cancel()
SignalCancel ==
  /\ sigState = "notified"
  /\ sigState' = "cancelled"
  /\ UNCHANGED <<appVars, poolVars, batchVars, lockVars, alertVars, runPc,
                 ticker, httpServer, wg, activeCycles, finalFlushes>>

\* ---------------------------------------------------------- CheckMultiple

\* The checks of a CheckMultiple call, each with the answer its HEAD request
\* gets: fresh, stale under skip, stale under alert, answered 404, and a
\* target without a scheme.
MultiChecks ==
  { [check |-> [URL |-> GoodURL, Threshold |-> 2, Behavior |-> "continue"],
     resp |-> DatedResponse(Now)],
    [check |-> [URL |-> GoodURL, Threshold |-> 1, Behavior |-> "skip"],
     resp |-> DatedResponse(1)],
    [check |-> [URL |-> GoodURL, Threshold |-> 1, Behavior |-> "alert"],
     resp |-> DatedResponse(1)],
    [check |-> [URL |-> GoodURL, Threshold |-> 2, Behavior |-> "alert"],
     resp |-> [DatedResponse(1) EXCEPT !.status = 404]],
    [check |-> [URL |-> [GoodURL EXCEPT !.scheme = "", !.host = ""],
                Threshold |-> 1, Behavior |-> "continue"],
     resp |-> NoResponse] }

\* results := make([]Result, len(checks)): zero values.
ZeroResults(n) == [i \in 1..n |-> EmptyStalenessResult(0, "")]

\* CheckMultiple(checks) up to the end of its first loop: one goroutine per
\* check, each holding its own index and check.
MultiCalled(checks) ==
  [pc |-> "collect", checks |-> checks,
   routines |-> [i \in 1..Len(checks) |-> "started"],
   results |-> ZeroResults(Len(checks)), received |-> 0, order |-> << >>]

MultiIdle ==
  /\ multi = [pc |-> "idle", checks |-> << >>, routines |-> << >>,
              results |-> << >>, received |-> 0, order |-> << >>]
  /\ resultChan = << >>

\* The goroutine of checks[i]: result := d.CheckStaleness(...), then
\* resultChan <- indexedResult{Index: index, Result: *result}; the channel's
\* capacity is len(checks), so the send never blocks.
RoutineCheck(i) ==
  /\ multi.pc = "collect"
  /\ multi.routines[i] = "started"
  /\ LET c == multi.checks[i]
     IN  resultChan' = Append(resultChan,
           [Index |-> i,
            Result |-> CheckStaleness(c.check.URL, c.resp, c.check.Threshold,
                                      c.check.Behavior)])
  /\ multi' = [multi EXCEPT !.routines[i] = "done"]

ResultSlotByArrival(indexed, received) == received + 1

\* results[indexed.Index] = indexed.Result
ResultSlot(indexed, received) == indexed.Index

\* One iteration of the collecting loop: indexed := <-resultChan.
MultiCollect ==
  /\ multi.pc = "collect"
  /\ multi.received < Len(multi.checks)
  /\ resultChan # << >>
  /\ LET indexed == Head(resultChan)
     IN  multi' = [multi EXCEPT
                     !.results[ResultSlot(indexed, multi.received)] = indexed.Result,
                     !.received = @ + 1,
                     !.order = Append(@, indexed.Index)]
  /\ resultChan' = Tail(resultChan)

\* return results
MultiReturn ==
  /\ multi.pc = "collect"
  /\ multi.received = Len(multi.checks)
  /\ multi' = [multi EXCEPT !.pc = "returned"]
  /\ UNCHANGED resultChan

\* ------------------------------------------------------ config.LoadConfig

\* A source as the configuration file gives it.  Name: its position in the
\* file, 0 for the empty string.  URL: "" or a URL.
RawStaleness(enabled, threshold, behavior) ==
  [Enabled |-> enabled, Threshold |-> threshold, Behavior |-> behavior, CheckURL |-> ""]

RawAPI(name) ==
  [Name |-> name, URL |-> "https://example.org/data", Format |-> "", EventType |-> "",
   Enabled |-> TRUE, Staleness |-> RawStaleness(FALSE, 0, "")]

\* Representative sources: plain; disabled; staleness with everything left
\* to the defaults; a negative, a positive threshold; an unknown behaviour;
\* a negative threshold on a policy that is not enabled; no name; no url;
\* an unknown format.
RawAPIs(name) ==
  { RawAPI(name),
    [RawAPI(name) EXCEPT !.Enabled = FALSE],
    [RawAPI(name) EXCEPT !.Staleness = RawStaleness(TRUE, 0, "")],
    [RawAPI(name) EXCEPT !.Staleness = RawStaleness(TRUE, -1, "skip")],
    [RawAPI(name) EXCEPT !.Staleness = RawStaleness(TRUE, 1, "SKIP"), !.Enabled = FALSE],
    [RawAPI(name) EXCEPT !.Staleness = RawStaleness(TRUE, 1, "ignore")],
    [RawAPI(name) EXCEPT !.Staleness = RawStaleness(FALSE, -1, "")],
    [RawAPI(name) EXCEPT !.Name = 0],
    [RawAPI(name) EXCEPT !.URL = ""],
    [RawAPI(name) EXCEPT !.Format = "xml"] }

\* Representative alert channel lists: none; a log channel; a channel of an
\* unknown type.
RawChannelLists ==
  { << >>, <<[Name |-> "ops", Type |-> "LOG"]>>, <<[Name |-> "ops", Type |-> "email"]>> }

\* Configurations as yaml.Unmarshal yields them.  Credentials: api_key and
\* account_id are both set, or api_key is missing.
RawConfigs ==
  { [WorkerCount |-> wc, LogLevel |-> ll, Credentials |-> cr, Channels |-> ch, APIs |-> l] :
      wc \in {-1, 0, 1, MaxWorkerCount, MaxWorkerCount + 1},
      ll \in {"", "verbose"},
      cr \in BOOLEAN,
      ch \in RawChannelLists,
      l \in UNION { { q \in [1..n -> UNION { RawAPIs(i) : i \in 1..n }] :
                        \A i \in 1..n : q[i].Name \in {i, 0} } : n \in 0..MaxAPIs } }

\* setDefaults, for the staleness block of a source whose policy is enabled.
DefaultedStaleness(st, url) ==
  [st EXCEPT !.Threshold = IF @ = 0 THEN DefaultThreshold ELSE @,
             !.Behavior = IF @ = "" THEN "continue" ELSE @,
             !.CheckURL = IF @ = "" /\ url # "" THEN url ELSE @]

\* setDefaults (it always returns nil).
setDefaults(c) ==
  [c EXCEPT
     !.LogLevel = IF @ = "" THEN "info" ELSE @,
     !.WorkerCount = IF @ = 0 THEN DefaultWorkerCount ELSE @,
     !.APIs = [i \in 1..Len(@) |->
                 LET api == @[i]
                     a1  == [api EXCEPT
                               !.Format = IF @ = "" THEN "json" ELSE @,
                               !.EventType = IF @ = "" THEN "FlexSample" ELSE @]
                 IN  IF ~api.Staleness.Enabled THEN a1
                     ELSE [a1 EXCEPT !.Staleness = DefaultedStaleness(@, api.URL)]]]

\* strings.ToLower on the strings of a configuration.
LowerCase(str) ==
  CASE str = "SKIP" -> "skip"
    [] str = "LOG" -> "log"
    [] OTHER -> str

ThresholdRejectedNever(threshold) == FALSE

\* if api.Staleness.Threshold <= 0 { return ... "must be positive" }
ThresholdRejected(threshold) == threshold <= 0

\* contains(validBehaviors, strings.ToLower(api.Staleness.Behavior))
BehaviorAccepted(behavior) == LowerCase(behavior) \in {"skip", "alert", "continue"}

\* validate: what it returns for one source, Nil for none.
validateAPI(api) ==
  IF api.Name = 0 THEN "name is required"
  ELSE IF api.URL = "" THEN "url is required"
  ELSE IF LowerCase(api.Format) \notin {"json", "csv"} THEN "format must be one of"
  ELSE IF api.Staleness.Enabled /\ ~BehaviorAccepted(api.Staleness.Behavior)
    THEN "staleness.behavior must be one of"
  ELSE IF api.Staleness.Enabled /\ ThresholdRejected(api.Staleness.Threshold)
    THEN "staleness.threshold must be positive"
  ELSE Nil

\* validate: what it returns for one alert channel, Nil for none.
validateChannel(ch) ==
  IF ch.Name = "" THEN "name is required"
  ELSE IF LowerCase(ch.Type) \notin {"webhook", "slack", "log"} THEN "type must be one of"
  ELSE Nil

\* The first error of a list of checks made in order, Nil for none.
FirstError(errs) ==
  IF \A i \in 1..Len(errs) : errs[i] = Nil THEN Nil
  ELSE errs[CHOOSE i \in 1..Len(errs) :
              errs[i] # Nil /\ \A j \in 1..(i - 1) : errs[j] = Nil]

\* validate: the error it returns, Nil for none.
validate(c) ==
  IF ~c.Credentials THEN "newrelic.api_key is required"
  ELSE IF c.LogLevel \notin {"trace", "debug", "info", "warn", "error", "fatal", "panic"}
    THEN "invalid log_level"
  ELSE IF c.WorkerCount < 1 \/ c.WorkerCount > MaxWorkerCount
    THEN "worker_count must be between 1 and 100"
  ELSE IF Len(c.APIs) = 0 THEN "at least one API configuration is required"
  ELSE IF FirstError([i \in 1..Len(c.APIs) |-> validateAPI(c.APIs[i])]) # Nil
    THEN FirstError([i \in 1..Len(c.APIs) |-> validateAPI(c.APIs[i])])
  ELSE FirstError([i \in 1..Len(c.Channels) |-> validateChannel(c.Channels[i])])

\* LoadConfig after yaml.Unmarshal: setDefaults, then validate.
LoadConfig(raw) ==
  LET c   == setDefaults(raw)
      err == validate(c)
  IN  IF err # Nil THEN [config |-> raw, err |-> "config validation failed"]
      ELSE [config |-> c, err |-> Nil]

LoadIdle ==
  /\ rawConfig = [WorkerCount |-> 0, LogLevel |-> "", Credentials |-> FALSE,
                  Channels |-> << >>, APIs |-> << >>]
  /\ loaded = << >>
  /\ enabledList = << >>

\* config.LoadConfig(path), once.
LoadConfigCall ==
  /\ loaded = << >>
  /\ loaded' = <<LoadConfig(rawConfig)>>
  /\ UNCHANGED <<rawConfig, enabledList>>

\* cfg.GetEnabledAPIs() on the configuration LoadConfig returned.
GetEnabledAPIsCall ==
  /\ loaded # << >>
  /\ loaded[1].err = Nil
  /\ enabledList = << >>
  /\ enabledList' = <<GetEnabledAPIs(loaded[1].config.APIs)>>
  /\ UNCHANGED <<rawConfig, loaded>>

\* ---------------------------------------------- from a payload item to an event

\* A key that a map does not hold.
Absent == "<absent>"

\* The keys of the maps followed here.
AttributeKeys ==
  {"eventType", "timestamp", "api.name", "processed.timestamp",
   "processor.version", "collector.version", "collector.host", "value"}

NoAttributes == [k \in AttributeKeys |-> Absent]

\* for k, v := range src { dst[k] = v }
CopyInto(dst, src) ==
  [k \in AttributeKeys |-> IF src[k] # Absent THEN src[k] ELSE dst[k]]

\* The objects of a payload: a value, and possibly fields named like the
\* keys the program writes itself.
PayloadItems ==
  { [NoAttributes EXCEPT !["value"] = "42", !["eventType"] = t, !["api.name"] = n,
                         !["timestamp"] = ts] :
      t \in {Absent, "PayloadType"}, n \in {Absent, "payload-name"},
      ts \in {Absent, "1999"} }

\* The sources: their name, their event_type and their static attributes.
EventSources ==
  { [Name |-> "orders", EventType |-> et,
     Attributes |-> [NoAttributes EXCEPT !["eventType"] = t, !["api.name"] = n]] :
      et \in {"FlexSample", "OrderSample"},
      t \in {Absent, "StaticType"}, n \in {Absent, "static-name"} }

\* addCustomAttributes: the static attributes, then the processing metadata.
addCustomAttributes(sample, api) ==
  [CopyInto(sample, api.Attributes) EXCEPT
     !["api.name"] = api.Name,
     !["processed.timestamp"] = "now",
     !["processor.version"] = "1.0.0"]

\* convertToSamples on one object of the payload.
convertItem(item, api) == addCustomAttributes(CopyInto(NoAttributes, item), api)

\* AddEvent: the event it appends to the batch.
EventOf(eventType, attributes) ==
  [CopyInto([NoAttributes EXCEPT !["eventType"] = eventType, !["timestamp"] = "now"],
            attributes) EXCEPT
     !["collector.version"] = "1.0.0",
     !["collector.host"] = "host"]

EventIdle ==
  /\ evInput = [item |-> NoAttributes,
                api |-> [Name |-> "orders", EventType |-> "FlexSample",
                         Attributes |-> NoAttributes]]
  /\ evSample = << >>
  /\ evStored = << >>

\* fp.convertToSamples on the item.
ConvertItemCall ==
  /\ evSample = << >>
  /\ evSample' = <<convertItem(evInput.item, evInput.api)>>
  /\ UNCHANGED <<evInput, evStored>>

\* fp.sendSamplesToNewRelic(samples, api.EventType): AddEvent on the sample.
AddEventCall ==
  /\ evSample # << >>
  /\ evStored = << >>
  /\ evStored' = <<EventOf(evInput.api.EventType, evSample[1])>>
  /\ UNCHANGED <<evInput, evSample>>

\* ------------------------------------------------------------ processJSON

\* JSON values by what convertToSamples makes of them: an array of n objects,
\* an object, or anything else.  origin: 0 for the payload itself, k for the
\* k-th value the filter produces.
JSONValue(kind, n, origin) == [kind |-> kind, n |-> n, origin |-> origin]

JSONValues(origin) ==
  { JSONValue("array", 2, origin), JSONValue("object", 1, origin),
    JSONValue("scalar", 0, origin) }

\* What iter.Next() yields: a value, or an error.
FilterError == [kind |-> "error", n |-> 0, origin |-> 0]

\* The runs of a filter on a payload: up to MaxValues values and errors.
FilterRuns ==
  UNION { { q \in [1..n -> UNION { JSONValues(k) : k \in 1..n } \cup {FilterError}] :
              \A k \in 1..n : q[k] = FilterError \/ q[k].origin = k } :
          n \in 0..MaxValues }

\* processJSON's inputs.  parses: json.Unmarshal accepts the payload; jq:
\* api.JQ is empty, does not parse, does not compile, or is a filter; run:
\* what the filter produces on the payload.
JQInputs ==
  [parses : BOOLEAN, data : JSONValues(0), jq : {"", "unparsable", "uncompilable"},
   run : {<< >>}]
  \cup [parses : {TRUE}, data : JSONValues(0), jq : {"filter"}, run : FilterRuns]

\* applyJQTransformation after the loop: return data, nil
NoValue(data) == [value |-> data, err |-> Nil]

\* applyJQTransformation: the value it returns and its error, Nil for none.
applyJQTransformation(data, jq, run) ==
  IF jq = "unparsable" THEN [value |-> FilterError, err |-> "failed to parse JQ query"]
  ELSE IF jq = "uncompilable"
    THEN [value |-> FilterError, err |-> "failed to compile JQ query"]
  ELSE IF Len(run) = 0 THEN NoValue(data)
  ELSE IF run[1] = FilterError THEN [value |-> FilterError, err |-> "JQ execution error"]
  ELSE [value |-> run[1], err |-> Nil]

\* convertToSamples: one sample for each object, each marked with the value
\* it was made from.
convertToSamples(v) ==
  IF v.kind \in {"array", "object"}
    THEN [samples |-> [i \in 1..v.n |-> v.origin], err |-> Nil]
    ELSE [samples |-> << >>, err |-> "unsupported data type for conversion"]

\* processJSON: the samples it returns and its error, Nil for none.
processJSON(in) ==
  IF ~in.parses THEN [samples |-> << >>, err |-> "failed to parse JSON"]
  ELSE LET t == IF in.jq # "" THEN applyJQTransformation(in.data, in.jq, in.run)
                ELSE [value |-> in.data, err |-> Nil]
           c == convertToSamples(t.value)
       IN  IF t.err # Nil THEN [samples |-> << >>, err |-> "JQ transformation failed"]
           ELSE IF c.err # Nil
             THEN [samples |-> << >>, err |-> "failed to convert to samples"]
           ELSE c

JQIdle ==
  /\ jqInput = [parses |-> TRUE, data |-> JSONValue("object", 1, 0), jq |-> "",
                run |-> << >>]
  /\ jqResult = << >>

\* fp.processJSON(data, api), once.
ProcessJSONCall ==
  /\ jqResult = << >>
  /\ jqResult' = <<processJSON(jqInput)>>
  /\ UNCHANGED jqInput

RecordIdle == EventIdle /\ JQIdle

CallsIdle == HookIdle /\ MultiIdle /\ LoadIdle /\ RecordIdle

\* ------------------------------------------------------- specifications

InitDetector ==
  /\ check \in StalenessChecks
  /\ response = NoResponse
  /\ checkResult = << >>
  /\ PoolIdle
  /\ eventBatch = << >> /\ metricBatch = << >>
  /\ BatchIdle
  /\ AlertIdle
  /\ AppIdle
  /\ CSVIdle
  /\ RunIdle
  /\ CallsIdle

NextDetector ==
  CheckStalenessCall /\ UNCHANGED <<poolVars, batchVars, lockVars, alertVars, appVars, csvVars, runVars, callVars>>

SpecDetector == InitDetector /\ [][NextDetector]_vars

PoolStep ==
  \/ StartWorkers
  \/ SendJob
  \/ CloseJobs
  \/ CollectResult
  \/ ReturnResults
  \/ \E w \in WorkerIds : WorkerReceive(w)
  \/ \E w \in WorkerIds : WorkerExit(w)
  \/ \E w \in WorkerIds : WorkerProcessAPI(w)
  \/ \E w \in WorkerIds : WorkerPanic(w)
  \/ \E w \in WorkerIds : WorkerSend(w)

NextPool == PoolStep /\ UNCHANGED <<detectorVars, lockVars, alertVars, appVars, csvVars, runVars, callVars>>

\* ProcessAPIs([]APIConfig{api}, 1) for every configuration of one source and
\* every behaviour of its endpoints.
InitAPI ==
  /\ DetectorIdle
  /\ \E api \in APIConfigs(1), net \in Endpoints : PoolCalled(<<api>>, 1, <<net>>)
  /\ eventBatch = << >> /\ metricBatch = << >>
  /\ BatchIdle
  /\ AlertIdle
  /\ AppIdle
  /\ CSVIdle
  /\ RunIdle
  /\ CallsIdle

SpecAPI == InitAPI /\ [][NextPool]_vars

\* One source more than the default worker count: all disabled but the last.
CrowdedList ==
  [i \in 1..(DefaultWorkers + 1) |->
     IF i <= DefaultWorkers THEN [BaseAPI(i) EXCEPT !.Enabled = FALSE] ELSE BaseAPI(i)]

\* ProcessAPIs(list, mw): every list of up to MaxSources sources with every
\* worker count from 1 to MaxWorkers, and the crowded list with the worker
\* counts 0 and -1 that select the default.
InitPool ==
  /\ DetectorIdle
  /\ \/ \E n \in 0..MaxSources : \E list \in SourceLists(n) :
          \E mw \in 1..MaxWorkers :
            PoolCalled([i \in 1..n |-> list[i].api], mw, [i \in 1..n |-> list[i].net])
     \/ \E mw \in {-1, 0} :
          PoolCalled(CrowdedList, mw, [i \in 1..(DefaultWorkers + 1) |-> QuietEndpoint])
  /\ eventBatch = << >> /\ metricBatch = << >>
  /\ BatchIdle
  /\ AlertIdle
  /\ AppIdle
  /\ CSVIdle
  /\ RunIdle
  /\ CallsIdle

SpecPool == InitPool /\ [][NextPool]_vars

\* The Go scheduler runs a goroutine that can take a step.
SpecPoolFair == InitPool /\ [][NextPool]_vars /\ WF_vars(NextPool)

\* NewCollector, then producers and one flushing thread.
InitBatch ==
  /\ DetectorIdle
  /\ PoolIdle
  /\ eventBatch = << >> /\ metricBatch = << >>
  /\ batchMutex = Free
  /\ producers = [p \in ProducerIds |-> [pc |-> "call", kind |-> "event", added |-> 0]]
  /\ flusher = IdleFlusher(0)
  /\ flushedEvents = << >>
  /\ flushedMetrics = << >>
  /\ AlertIdle
  /\ AppIdle
  /\ CSVIdle
  /\ RunIdle
  /\ CallsIdle

BatchStep ==
  \/ \E p \in ProducerIds : AddLock(p)
  \/ \E p \in ProducerIds : AddAppend(p)
  \/ SendBatchCall
  \/ SendEventsLock
  \/ SendEventsSwap
  \/ SendEventsMarshal
  \/ SendEventsPost
  \/ SendMetricsLock
  \/ SendMetricsSwap
  \/ SendMetricsMarshal
  \/ SendMetricsPost
  \/ SendBatchReturn

NextBatch ==
  BatchStep /\ UNCHANGED <<detectorVars, poolVars, alertVars, appVars, csvVars, runVars, callVars>>

SpecBatch == InitBatch /\ [][NextBatch]_vars

\* SendAlert(TestAlert) on a Manager built with every list of up to
\* MaxChannels channels.
InitAlert ==
  /\ DetectorIdle
  /\ PoolIdle
  /\ eventBatch = << >> /\ metricBatch = << >>
  /\ BatchIdle
  /\ \E n \in 0..MaxChannels : \E list \in SinkLists(n) :
       AlertCalled([i \in 1..n |-> list[i].ch], [i \in 1..n |-> list[i].net],
                   TestAlert)
  /\ AppIdle
  /\ CSVIdle
  /\ RunIdle
  /\ CallsIdle

AlertStep ==
  \/ SendAlertChannel
  \/ SendAlertReturn

NextAlert ==
  AlertStep /\ UNCHANGED <<detectorVars, poolVars, batchVars, lockVars, appVars, csvVars, runVars, callVars>>

SpecAlert == InitAlert /\ [][NextAlert]_vars

StaleWith(behavior) ==
  [Enabled |-> TRUE, Threshold |-> 1, Behavior |-> behavior, CheckURL |-> GoodURL]

\* The sources of a cycle, each with the behaviour of its endpoints: no
\* staleness policy; stale with behaviour alert, continue, skip; fresh with
\* behaviour alert; fetch fails; disabled; processing panics.
CycleSources(name) ==
  { [api |-> BaseAPI(name), net |-> [QuietEndpoint EXCEPT !.out = OneSample]],
    [api |-> BaseAPI(name), net |-> [QuietEndpoint EXCEPT !.get = "fail"]],
    [api |-> [BaseAPI(name) EXCEPT !.Enabled = FALSE], net |-> QuietEndpoint],
    [api |-> BaseAPI(name), net |-> [QuietEndpoint EXCEPT !.panic = TRUE]],
    [api |-> [BaseAPI(name) EXCEPT !.Staleness = StaleWith("alert")],
     net |-> [QuietEndpoint EXCEPT !.head = DatedResponse(Now), !.out = OneSample]] }
  \cup { [api |-> [BaseAPI(name) EXCEPT !.Staleness = StaleWith(b)],
          net |-> [QuietEndpoint EXCEPT !.head = DatedResponse(1), !.out = OneSample]] :
           b \in {"alert", "continue", "skip"} }

\* The sources of the two-source cycles: stale with behaviour alert or
\* continue, or failing to fetch.
PairSources(name) ==
  { sn \in CycleSources(name) :
      /\ sn.api.Enabled /\ ~sn.net.panic
      /\ \/ sn.net.get = "fail"
         \/ sn.api.Staleness.Behavior \in {"alert", "continue"}
              /\ sn.net.head = DatedResponse(1) }

\* Channel lists of the Manager of an Application: none; a log channel; a
\* failing webhook ahead of a log channel; a fatal-level log channel.
AppSinks ==
  { l \in SinkLists(0) \cup SinkLists(1) \cup SinkLists(2) :
      \/ Len(l) = 0
      \/ Len(l) = 1 /\ l[1].ch.Type = "log" /\ l[1].ch.Level \in {"", "fatal"}
      \/ Len(l) = 2 /\ l[1].ch.Type = "webhook" /\ l[1].net = "error"
           /\ l[2].ch.Type = "log" /\ l[2].ch.Level = "" }

LogSink == << [ch |-> Channel(1, "log", TRUE, "valid", ""), net |-> "ok"] >>

\* An Application built from a configuration with the sources of list and
\* the alert channels of sinks, nothing running yet.
AppBuilt(metrics, alerts, workerCount, list, sinks) ==
  /\ config = AppConfig(metrics, alerts, workerCount,
                        [i \in 1..Len(list) |-> list[i].api])
  /\ apis = << >>
  /\ maxWorkers = workerCount
  /\ mainPc = "idle"
  /\ nextJob = 1
  /\ jobs = << >>
  /\ jobsClosed = FALSE
  /\ results = << >>
  /\ processResults = << >>
  /\ workers = [w \in WorkerIds |-> IdleWorker("unstarted")]
  /\ crashed = FALSE
  /\ network = [i \in SourceIds |-> IF i <= Len(list) THEN list[i].net ELSE QuietEndpoint]
  /\ heads = [i \in SourceIds |-> 0]
  /\ gets = [i \in SourceIds |-> 0]
  /\ channels = [i \in 1..Len(sinks) |-> sinks[i].ch]
  /\ alertNet = [i \in ChannelIds |-> IF i <= Len(sinks) THEN sinks[i].net ELSE "ok"]
  /\ alertCall = AlertCallIdle
  /\ attempts = << >>
  /\ exited = FALSE

\* processAPIs() is called once: on one source of every kind with one worker
\* and every channel list, and on two sources with two workers.
InitCycle ==
  /\ DetectorIdle
  /\ CSVIdle
  /\ RunIdle
  /\ CallsIdle
  /\ eventBatch = << >> /\ metricBatch = << >>
  /\ BatchIdle
  /\ cycle = [CycleIdle EXCEPT !.pc = "start"]
  /\ \E metrics \in BOOLEAN, alerts \in BOOLEAN :
       \/ \E src \in CycleSources(1), sinks \in AppSinks :
            AppBuilt(metrics, alerts, 1, <<src>>, sinks)
       \/ \E s1 \in PairSources(1), s2 \in PairSources(2) :
            AppBuilt(metrics, alerts, 2, <<s1, s2>>, LogSink)

FlushStep ==
  \/ SendEventsLock
  \/ SendEventsSwap
  \/ SendEventsMarshal
  \/ SendEventsPost
  \/ SendMetricsLock
  \/ SendMetricsSwap
  \/ SendMetricsMarshal
  \/ SendMetricsPost
  \/ SendBatchReturn

CycleStep ==
  \/ CycleStart
  \/ CycleResults
  \/ CycleAnalyze
  \/ CycleErrorAlerted
  \/ CycleStaleCheck
  \/ CycleStaleAlerted
  \/ CycleMetrics
  \/ CycleSendBatch
  \/ CycleFlushed

\* Nothing runs once os.Exit has been called.
NextCycle ==
  /\ ~exited
  /\ \/ CycleStep /\ UNCHANGED <<detectorVars, csvVars, runVars, callVars>>
     \/ PoolStep /\ UNCHANGED <<detectorVars, lockVars, alertVars, appVars, csvVars, runVars, callVars>>
     \/ AlertStep /\ UNCHANGED <<detectorVars, poolVars, batchVars, lockVars, appVars, csvVars, runVars, callVars>>
     \/ FlushStep /\ UNCHANGED <<detectorVars, poolVars, alertVars, appVars, csvVars, runVars, callVars>>

SpecCycle == InitCycle /\ [][NextCycle]_vars

\* processCSV on every payload of up to MaxRows records.
InitCSV ==
  /\ DetectorIdle
  /\ PoolIdle
  /\ eventBatch = << >> /\ metricBatch = << >>
  /\ BatchIdle
  /\ AlertIdle
  /\ AppIdle
  /\ RunIdle
  /\ CallsIdle
  /\ csvData \in CSVPayloads
  /\ csvResult = << >>

NextCSV ==
  ProcessCSVCall
    /\ UNCHANGED <<detectorVars, poolVars, batchVars, lockVars, alertVars, appVars,
                   runVars, callVars>>

SpecCSV == InitCSV /\ [][NextCSV]_vars


\* The sources of a run: one that yields a record, one whose fetch fails,
\* one stale with behaviour alert, one whose processing panics.
RunSources ==
  { sn \in CycleSources(1) :
      /\ sn.api.Enabled
      /\ \/ ~sn.api.Staleness.Enabled
         \/ sn.api.Staleness.Behavior = "alert" /\ sn.net.head = DatedResponse(1) }

\* Channel lists of the Manager of a run: a log channel with no level, a
\* log channel with level "fatal".
RunSinks ==
  { l \in SinkLists(1) : l[1].ch.Type = "log" /\ l[1].ch.Level \in {"", "fatal"} }

\* main: initializeApplication, setupGracefulShutdown, then app.run().
InitRun ==
  /\ DetectorIdle
  /\ CSVIdle
  /\ CallsIdle
  /\ eventBatch = << >> /\ metricBatch = << >>
  /\ BatchIdle
  /\ cycle = CycleIdle
  /\ \E metrics \in BOOLEAN, alerts \in BOOLEAN :
       \E src \in RunSources, sinks \in RunSinks :
         AppBuilt(metrics, alerts, 1, <<src>>, sinks)
  /\ runPc = "start"
  /\ ticker = [running |-> FALSE, c |-> 0, fired |-> 0]
  /\ sigState = "none"
  /\ httpServer = [pc |-> "unstarted", shuttingDown |-> FALSE]
  /\ wg = 0
  /\ activeCycles = 0
  /\ finalFlushes = 0

RunStep ==
  \/ RunStart
  \/ RunStartupAlerted
  \/ RunInitial
  \/ RunCycleReturned
  \/ SelectTick
  \/ SelectDone
  \/ ShutdownFlushed
  \/ ShutdownStopHTTP
  \/ ShutdownAlerted
  \/ ShutdownWait
  \/ HTTPListen
  \/ HTTPServerClosed
  \/ SignalCancel

\* The process runs until os.Exit, a panic, or the return of run (and main).
ProcessRunning == ~exited /\ ~crashed /\ runPc # "returned"

\* A step of the program's goroutines.
ProgramStep ==
  /\ ProcessRunning
  /\ \/ RunStep /\ UNCHANGED <<detectorVars, csvVars, callVars>>
     \/ CycleStep /\ UNCHANGED <<detectorVars, csvVars, runVars, callVars>>
     \/ PoolStep /\ UNCHANGED <<detectorVars, lockVars, alertVars, appVars, csvVars, runVars, callVars>>
     \/ AlertStep /\ UNCHANGED <<detectorVars, poolVars, batchVars, lockVars, appVars, csvVars, runVars, callVars>>
     \/ FlushStep /\ UNCHANGED <<detectorVars, poolVars, alertVars, appVars, csvVars, runVars, callVars>>

\* A step of the environment: the ticker's timer, the operating system's
\* signal.
EnvironmentStep ==
  /\ ProcessRunning
  /\ \/ TickFire
     \/ SignalNotify
  /\ UNCHANGED <<detectorVars, csvVars, callVars>>

NextRun == ProgramStep \/ EnvironmentStep

SpecRun == InitRun /\ [][NextRun]_vars

\* The Go scheduler runs every goroutine that can take a step.
SpecRunFair == InitRun /\ [][NextRun]_vars /\ WF_vars(ProgramStep)

\* sendWebhook on every "url" setting and every answer of the endpoint.
InitWebhook ==
  /\ DetectorIdle
  /\ PoolIdle
  /\ eventBatch = << >> /\ metricBatch = << >>
  /\ BatchIdle
  /\ AlertIdle
  /\ AppIdle
  /\ CSVIdle
  /\ RunIdle
  /\ MultiIdle
  /\ LoadIdle
  /\ RecordIdle
  /\ hook \in [setting : WebhookSettings, net : {"ok", "error", "bad status"}]
  /\ hookResult = << >>

NextWebhook ==
  SendWebhookCall
    /\ UNCHANGED <<detectorVars, poolVars, batchVars, lockVars, alertVars, appVars,
                   csvVars, runVars, multiVars, loadVars, recordVars>>

SpecWebhook == InitWebhook /\ [][NextWebhook]_vars

\* CheckMultiple on every list of up to MaxChecks checks.
InitMultiple ==
  /\ DetectorIdle
  /\ PoolIdle
  /\ eventBatch = << >> /\ metricBatch = << >>
  /\ BatchIdle
  /\ AlertIdle
  /\ AppIdle
  /\ CSVIdle
  /\ RunIdle
  /\ HookIdle
  /\ LoadIdle
  /\ RecordIdle
  /\ \E n \in 0..MaxChecks : \E checks \in [1..n -> MultiChecks] :
       multi = MultiCalled(checks)
  /\ resultChan = << >>

NextMultiple ==
  /\ \/ \E i \in 1..Len(multi.checks) : RoutineCheck(i)
     \/ MultiCollect
     \/ MultiReturn
  /\ UNCHANGED <<detectorVars, poolVars, batchVars, lockVars, alertVars, appVars,
                 csvVars, runVars, hookVars, loadVars, recordVars>>

SpecMultiple == InitMultiple /\ [][NextMultiple]_vars

\* LoadConfig on every configuration of RawConfigs, then GetEnabledAPIs.
InitConfig ==
  /\ DetectorIdle
  /\ PoolIdle
  /\ eventBatch = << >> /\ metricBatch = << >>
  /\ BatchIdle
  /\ AlertIdle
  /\ AppIdle
  /\ CSVIdle
  /\ RunIdle
  /\ HookIdle
  /\ MultiIdle
  /\ RecordIdle
  /\ rawConfig \in RawConfigs
  /\ loaded = << >>
  /\ enabledList = << >>

NextConfig ==
  /\ \/ LoadConfigCall
     \/ GetEnabledAPIsCall
  /\ UNCHANGED <<detectorVars, poolVars, batchVars, lockVars, alertVars, appVars,
                 csvVars, runVars, hookVars, multiVars, recordVars>>

SpecConfig == InitConfig /\ [][NextConfig]_vars

\* One item of a payload, converted and added to the batch.
InitEvent ==
  /\ DetectorIdle
  /\ PoolIdle
  /\ eventBatch = << >> /\ metricBatch = << >>
  /\ BatchIdle
  /\ AlertIdle
  /\ AppIdle
  /\ CSVIdle
  /\ RunIdle
  /\ HookIdle
  /\ MultiIdle
  /\ LoadIdle
  /\ JQIdle
  /\ evInput \in [item : PayloadItems, api : EventSources]
  /\ evSample = << >>
  /\ evStored = << >>

NextEvent ==
  /\ \/ ConvertItemCall
     \/ AddEventCall
  /\ UNCHANGED <<detectorVars, poolVars, batchVars, lockVars, alertVars, appVars,
                 csvVars, runVars, hookVars, multiVars, loadVars, jqVars>>

SpecEvent == InitEvent /\ [][NextEvent]_vars

\* processJSON on every input of JQInputs.
InitJQ ==
  /\ DetectorIdle
  /\ PoolIdle
  /\ eventBatch = << >> /\ metricBatch = << >>
  /\ BatchIdle
  /\ AlertIdle
  /\ AppIdle
  /\ CSVIdle
  /\ RunIdle
  /\ HookIdle
  /\ MultiIdle
  /\ LoadIdle
  /\ EventIdle
  /\ jqInput \in JQInputs
  /\ jqResult = << >>

NextJQ ==
  /\ ProcessJSONCall
  /\ UNCHANGED <<detectorVars, poolVars, batchVars, lockVars, alertVars, appVars,
                 csvVars, runVars, hookVars, multiVars, loadVars, eventVars>>

SpecJQ == InitJQ /\ [][NextJQ]_vars

\* ---------------------------------------------------------------- claims

\* The age a response makes CheckStaleness measure: the distance from the
\* Last-Modified date to the clock, or the delay since the fallback reading.
MeasuredAge(resp) == IF resp.header = "date" THEN Now - resp.date ELSE resp.delay

\* The probe of a target succeeds: a well-formed http(s) target answered
\* with status 200 and no unparsable Last-Modified value.
ProbeSucceeds(url, resp) ==
  /\ ~url.blank /\ url.parses /\ url.scheme \in {"http", "https"} /\ url.host # ""
  /\ resp.transport = "ok" /\ resp.status = 200 /\ resp.header # "malformed"

\* The outcomes produced for source i so far, wherever they are.
Outcomes(i) ==
  { workers[w].result : w \in { v \in WorkerIds : workers[v].pc = "send"
                                                   /\ workers[v].api.Name = i } }
  \cup { results[k] : k \in { j \in 1..Len(results) : results[j].APIName = i } }
  \cup { processResults[k] :
           k \in { j \in 1..Len(processResults) : processResults[j].APIName = i } }

EventsOf(i) == { k \in 1..Len(eventBatch) : eventBatch[k].api = i }

\* C1: for every successful check, IsStale is exactly (measured age >
\* threshold); an age equal to the threshold is fresh.
C1_StrictStaleness ==
  \A k \in 1..Len(checkResult) :
    LET r == checkResult[k]
    IN  r.Error = Nil =>
          /\ r.FileAge = MeasuredAge(response)
          /\ r.IsStale = (MeasuredAge(response) > check.Threshold)
          /\ (r.FileAge = r.Threshold => ~r.IsStale)

C1_Witness ==
  /\ checkResult # << >>
  /\ checkResult[1].Error = Nil
  /\ checkResult[1].Threshold > 0
  /\ checkResult[1].FileAge = checkResult[1].Threshold
  /\ ~checkResult[1].IsStale

\* C2: for every successful check with behaviour skip, alert or continue,
\* ShouldSkip = (IsStale and skip), ShouldAlert = (IsStale and alert), and the
\* two flags are never both set.
C2_BehaviorMatrix ==
  \A k \in 1..Len(checkResult) :
    LET r == checkResult[k]
    IN  (r.Error = Nil /\ check.Behavior \in {"skip", "alert", "continue"}) =>
          /\ r.ShouldSkip = (r.IsStale /\ check.Behavior = "skip")
          /\ r.ShouldAlert = (r.IsStale /\ check.Behavior = "alert")
          /\ ~(r.ShouldSkip /\ r.ShouldAlert)

C2_Witness ==
  /\ checkResult # << >>
  /\ checkResult[1].Error = Nil
  /\ checkResult[1].IsStale
  /\ check.Behavior = "continue"
  /\ ~checkResult[1].ShouldSkip /\ ~checkResult[1].ShouldAlert

\* Source i is handed to ProcessAPI with the policy enabled, its probe
\* succeeds and finds it stale, and its behaviour is skip.
StaleSkip(i) ==
  /\ i <= Len(apis)
  /\ apis[i].Enabled /\ apis[i].Staleness.Enabled
  /\ ~network[i].panic
  /\ ProbeSucceeds(apis[i].Staleness.CheckURL, network[i].head)
  /\ MeasuredAge(network[i].head) > apis[i].Staleness.Threshold
  /\ apis[i].Staleness.Behavior = "skip"

\* C3: a stale source whose behaviour is skip is never fetched, adds no
\* record to the batch, and its outcome has RecordCount 0, IsStale and no error.
C3_StaleSkipNoFetch ==
  \A i \in SourceIds :
    StaleSkip(i) =>
      /\ gets[i] = 0
      /\ EventsOf(i) = {}
      /\ \A o \in Outcomes(i) :
           o.RecordCount = 0 /\ o.IsStale /\ ~o.HasError /\ o.Error = Nil

C3_Witness ==
  /\ StaleSkip(1)
  /\ mainPc = "returned"
  /\ Len(processResults) = 1
  /\ heads[1] = 1

\* Source i is handed to ProcessAPI with the policy enabled and its probe fails.
ProbeFails(i) ==
  /\ i <= Len(apis)
  /\ apis[i].Enabled /\ apis[i].Staleness.Enabled
  /\ ~network[i].panic
  /\ ~ProbeSucceeds(apis[i].Staleness.CheckURL, network[i].head)

\* C4: when the probe fails the outcome is an error outcome and nothing else
\* happens for the source: no fetch, no records.
C4_ProbeFailureStops ==
  \A i \in SourceIds :
    ProbeFails(i) =>
      /\ gets[i] = 0
      /\ EventsOf(i) = {}
      /\ \A o \in Outcomes(i) :
           o.HasError /\ o.Error # Nil /\ o.RecordCount = 0

C4_Witness ==
  /\ ProbeFails(1)
  /\ network[1].head.status = 404
  /\ network[1].get = "ok" /\ ~network[1].out.err /\ network[1].out.n > 0
  /\ mainPc = "returned"
  /\ Len(processResults) = 1

\* Where source i is: not yet queued, in jobs, held by a worker, in results,
\* or collected.
Holders(i) ==
  (IF i >= nextJob THEN 1 ELSE 0)
  + Cardinality({ k \in 1..Len(jobs) : jobs[k].Name = i })
  + Cardinality({ w \in WorkerIds : workers[w].pc \in {"process", "send"}
                                    /\ workers[w].api.Name = i })
  + Cardinality({ k \in 1..Len(results) : results[k].APIName = i })
  + Cardinality({ k \in 1..Len(processResults) : processResults[k].APIName = i })

\* C5: every source is in exactly one place at any time (one worker takes
\* it, it is neither processed twice nor dropped), and when ProcessAPIs
\* returns there are exactly N outcomes, one per source.
C5_OneOutcomePerSource ==
  /\ \A i \in 1..Len(apis) : Holders(i) = 1
  /\ \A i \in 1..Len(apis) : heads[i] <= 1 /\ gets[i] <= 1
  /\ mainPc = "returned" =>
       /\ Len(processResults) = Len(apis)
       /\ \A i \in 1..Len(apis) :
            Cardinality({ k \in 1..Len(processResults) :
                            processResults[k].APIName = i }) = 1

C5_Witness ==
  /\ mainPc = "returned"
  /\ Len(apis) >= 2
  /\ maxWorkers = 2
  /\ processResults[1].APIName = 2

\* The worker count the caller configured, 4 standing in for any K <= 0.
ConfiguredConcurrency == IF maxWorkers <= 0 THEN 4 ELSE maxWorkers

InFlight == { w \in WorkerIds : workers[w].pc \in {"process", "send"} }

\* C6: at any instant at most K sources are in flight, K the configured
\* worker count (4 when it is <= 0).
C6_BoundedConcurrency == Cardinality(InFlight) <= ConfiguredConcurrency

C6_Witness ==
  /\ maxWorkers <= 0
  /\ Cardinality(InFlight) = 4
  /\ Len(jobs) >= 1

\* C7: a failure of one source, an error or a panic inside its worker, never
\* aborts the pool, and ProcessAPIs returns an outcome for every source.
C7_FailureNeverAbortsPool ==
  /\ ~crashed
  /\ mainPc = "returned" => \A i \in 1..Len(apis) : Outcomes(i) # {}

\* Occurrences of entry id in a sequence of batch entries.
Occurrences(id, batch) == Cardinality({ k \in 1..Len(batch) : batch[k].api = id })

Everywhere(id) ==
  Occurrences(id, flushedEvents) + Occurrences(id, eventBatch)
  + Occurrences(id, flushedMetrics) + Occurrences(id, metricBatch)

Settled ==
  /\ \A p \in ProducerIds : producers[p].pc = "done"
  /\ flusher.pc = "idle" /\ flusher.done >= 1

\* C8: whatever the interleaving of AddEvent/AddMetric with SendBatch, every
\* entry added so far is in exactly one of the flushed snapshots and the
\* pending collections; once settled, flushed + pending = added.
C8_NoEntryLostOrDuplicated ==
  /\ \A p \in ProducerIds : \A k \in 1..MaxAdds :
       Everywhere(EntryId(p, k)) = IF k <= producers[p].added THEN 1 ELSE 0
  /\ Settled =>
       Len(flushedEvents) + Len(flushedMetrics) + Len(eventBatch) + Len(metricBatch)
         = Cardinality(ProducerIds) * MaxAdds

C8_Witness ==
  /\ Settled
  /\ Len(flushedEvents) >= 1
  /\ Len(eventBatch) >= 1
  /\ Len(flushedMetrics) >= 1

Transmitting == flusher.pc \in {"ev_marshal", "ev_http", "me_marshal", "me_http"}

\* C9: the flush never holds the batch lock while it marshals or transmits,
\* so the lock is free for, or held by, a producer throughout a transmission.
C9_LockFreeWhileTransmitting ==
  Transmitting =>
    /\ batchMutex # FlusherId
    /\ \A p \in ProducerIds :
         (producers[p].pc = "call" /\ batchMutex = Free) => ENABLED AddLock(p)

C9_Witness ==
  /\ flusher.pc = "ev_http"
  /\ batchMutex \in ProducerIds
  /\ producers[batchMutex].pc = "locked"

SubmissionFailed(outcome) ==
  outcome \in {"marshal failed", "request failed", "bad status"}

Reported(what) == \E k \in 1..Len(flusher.errors) : flusher.errors[k] = what

BatchReturned == flusher.pc = "idle" /\ flusher.done >= 1

\* C10: SendBatch calls SendEvents once and SendMetrics once whatever the
\* other returned, reports every submission that failed, and returns nil
\* only when neither failed.
C10_IndependentSubmissions ==
  BatchReturned =>
    /\ flusher.evCalls = 1 /\ flusher.meCalls = 1
    /\ Reported("events") = SubmissionFailed(flusher.evOutcome)
    /\ Reported("metrics") = SubmissionFailed(flusher.meOutcome)
    /\ (flusher.ret = Nil) =
         (~SubmissionFailed(flusher.evOutcome) /\ ~SubmissionFailed(flusher.meOutcome))

C10_Witness ==
  /\ BatchReturned
  /\ SubmissionFailed(flusher.evOutcome)
  /\ SubmissionFailed(flusher.meOutcome)
  /\ Len(flusher.errors) = 2
  /\ flusher.ret # Nil

\* The channels of the Manager that are enabled, in configuration order.
RECURSIVE EnabledUpTo(_)
EnabledUpTo(n) ==
  IF n = 0 THEN << >>
  ELSE IF channels[n].Enabled THEN Append(EnabledUpTo(n - 1), n)
  ELSE EnabledUpTo(n - 1)

EnabledChannels == EnabledUpTo(Len(channels))

\* The channels sendToChannel has been called for, in call order.
Attempted == [k \in 1..Len(attempts) |-> attempts[k].channel]

\* The SendAlert call is over: it returned, or the process ended inside it.
AlertCallOver == alertCall.pc = "returned" \/ exited

\* C11: every enabled channel gets exactly one delivery attempt per SendAlert
\* call, in configuration order, whatever happened to earlier channels, and
\* disabled channels get none.
C11_EveryEnabledChannelAttempted ==
  /\ \A k \in 1..Len(attempts) :
       k <= Len(EnabledChannels) /\ Attempted[k] = EnabledChannels[k]
  /\ AlertCallOver => Attempted = EnabledChannels

\* Delivery to channel i fails: its target is missing or malformed, its
\* endpoint refuses or answers with a bad status, or its type is unknown.
DeliveryFails(i) ==
  LET ch == channels[i]
  IN  /\ ch.Enabled
      /\ \/ ch.Type \notin {"webhook", "slack", "log"}
         \/ ch.Type \in {"webhook", "slack"}
              /\ (ch.Target # "valid" \/ alertNet[i] # "ok")

FailedChannels == { i \in 1..Len(channels) : DeliveryFails(i) }

\* C12: SendAlert returns an error exactly when some enabled channel's
\* delivery failed, the error lists every failed channel once, and with no
\* enabled channel it returns nil without any delivery.
C12_AggregateError ==
  alertCall.pc = "returned" =>
    /\ (alertCall.ret # Nil) = (FailedChannels # {})
    /\ Len(alertCall.errors) = Cardinality(FailedChannels)
    /\ { alertCall.errors[k] : k \in 1..Len(alertCall.errors) } = FailedChannels
    /\ EnabledChannels = << >> => (alertCall.ret = Nil /\ attempts = << >>)

C12_Witness ==
  /\ alertCall.pc = "returned"
  /\ Len(channels) = 2
  /\ Cardinality(FailedChannels) = 2
  /\ Len(alertCall.errors) = 2
  /\ alertCall.ret # Nil

\* The analysis loop of processAPIs has gone through every result.
AnalysisOver ==
  cycle.pc \in {"metrics", "flush", "flushing", "done"} /\ mainPc = "returned"

\* Staleness alerts processAPIs has dispatched for source i.
StalenessAlerts(i) ==
  Cardinality({ k \in 1..Len(cycle.alerts) : cycle.alerts[k] = StalenessAlert(i) })

\* Source i, stale with behaviour continue, was fetched and its records
\* were produced.
StillCollected(i, r) ==
  /\ gets[i] = 1
  /\ (network[i].get = "ok" /\ ~network[i].out.err) =>
       (~r.HasError /\ r.RecordCount = network[i].out.n)

Aggregating ==
  cycle.pc \in {"analyze", "error_alert", "stale_check", "stale_alert",
                "metrics", "flush", "flushing"}

\* C15: the aggregates, the alerts and the cycle measurements of a cycle are
\* computed only once ProcessAPIs has returned every outcome: no worker is
\* still producing or sending one, and before that nothing has been computed.
C15_AggregatesAfterCollection ==
  /\ Aggregating =>
       /\ mainPc = "returned"
       /\ Len(processResults) = Len(apis)
       /\ results = << >>
       /\ \A w \in WorkerIds : workers[w].pc \notin {"process", "send"}
  /\ cycle.pc \in {"start", "pool"} =>
       /\ cycle.totalRecords = 0 /\ cycle.errors = 0 /\ cycle.staleCount = 0
       /\ cycle.alerts = << >>
       /\ cycle.flushes = 0
       /\ \A k \in 1..Len(metricBatch) : metricBatch[k].api # 0

C15_Witness ==
  /\ cycle.pc = "stale_check"
  /\ cycle.i = 2
  /\ Len(apis) = 2
  /\ cycle.errors = 1 /\ cycle.staleCount = 1
  /\ \E w \in WorkerIds : workers[w].pc = "recv"

\* The HEAD request came back with status 200 and no Last-Modified header.
NoModificationTime ==
  /\ response.transport = "ok" /\ response.status = StatusOK
  /\ response.header = "absent"

\* C19: a successful probe response without a modification time makes the
\* probe resolve the modification time to its own clock reading, and for
\* every threshold > 0 the result is IsStale = false with no error.
C19_FallbackFresh ==
  \A k \in 1..Len(checkResult) :
    LET r == checkResult[k]
    IN  (NoModificationTime /\ check.Threshold > 0) =>
          /\ r.Error = Nil
          /\ r.LastModified = Now - response.delay
          /\ ~r.IsStale

\* A target that is empty, has no scheme, has a scheme other than http or
\* https, or has no host.
MalformedTarget(u) ==
  u.blank \/ u.scheme = "" \/ u.scheme \notin {"http", "https"} \/ u.host = ""

\* C20: for a malformed check target CheckStaleness returns a result with
\* Error set and no HEAD request is made.
C20_MalformedTargetNoRequest ==
  \A k \in 1..Len(checkResult) :
    MalformedTarget(check.URL) =>
      /\ checkResult[k].Error = "invalid URL"
      /\ ~checkResult[k].IsStale
      /\ response = NoResponse
      /\ HeadRequests(check.URL) = 0

C20_Witness ==
  /\ checkResult # << >>
  /\ check.URL.scheme = "https" /\ check.URL.host = "" /\ ~check.URL.blank
  /\ checkResult[1].Error = "invalid URL"
  /\ response = NoResponse

\* The data rows of the payload whose field count equals the header's.
WellFormedRows == { k \in 2..Len(csvData) : csvData[k] = csvData[1] }

\* C18: processCSV never fails on a data row whose column count differs
\* from the header's: it succeeds and returns exactly one record for each
\* well-formed data row.
C18_RaggedRowSkipped ==
  \A k \in 1..Len(csvResult) :
    LET r == csvResult[k]
    IN  /\ r.err = Nil
        /\ { r.samples[j].row : j \in 1..Len(r.samples) } = WellFormedRows
        /\ Len(r.samples) = Cardinality(WellFormedRows)

\* The process has ended: os.Exit, a panic, or the return of run and main.
ProcessEnded == exited \/ crashed \/ runPc = "returned"

\* The shutdown signal has been delivered.
Signalled == sigState # "none"

\* C14: no condition of the pipeline terminates the process, whatever the
\* sources, the submissions and the accepted alert channels do: the process
\* ends only after the shutdown signal.
C14_OnlySignalEndsLoop == (runPc # "idle" /\ ProcessEnded) => Signalled

\* The ticker fires while a processAPIs call is in progress.
TickDuringCycle == activeCycles >= 1 /\ ticker'.fired = ticker.fired + 1

\* C16, as stated: a tick that fires while a cycle is in flight starts a new
\* cycle concurrently with it.
C16_TickStartsConcurrentCycle ==
  [][TickDuringCycle => activeCycles' = activeCycles + 1]_vars

\* C16, amended: cycles never overlap.  At most one cycle is in flight; a
\* tick that fires during a cycle starts nothing and is held in the ticker's
\* channel (one tick at most) until the cycle has returned.
C16_CyclesNeverOverlap ==
  /\ [](activeCycles <= 1)
  /\ [][TickDuringCycle =>
          /\ activeCycles' = activeCycles
          /\ cycle' = cycle
          /\ ticker'.c = 1]_vars
  /\ [][activeCycles' > activeCycles => activeCycles = 0 /\ runPc \in {"initial", "select"}]_vars

C16_Witness ==
  /\ activeCycles = 1
  /\ cycle.pc = "pool"
  /\ ticker.c = 1
  /\ ticker.fired = 2

\* C17: after a shutdown signal the process ends only by the return of run,
\* with no cycle left unfinished, the ticker stopped and, when metrics are
\* enabled, the final flush attempted; and run eventually returns.
C17_GracefulShutdown ==
  /\ [](Signalled /\ ProcessEnded =>
          /\ runPc = "returned"
          /\ activeCycles = 0
          /\ ~ticker.running
          /\ config.EnableMetrics => finalFlushes >= 1)
  /\ Signalled ~> (runPc = "returned")

\* The probe of the check fails: the target is rejected by validateURL, the
\* request gets no response, the response is not 200, or its Last-Modified
\* value is in none of the accepted layouts.
FailedProbe ==
  \/ check.URL.blank \/ ~check.URL.parses
  \/ check.URL.scheme \notin {"http", "https"} \/ check.URL.host = ""
  \/ response.transport = "fail"
  \/ response.transport = "ok" /\ response.status # 200
  \/ response.transport = "ok" /\ response.status = 200 /\ response.header = "malformed"

\* C21: every failed probe is returned as a result with Error set, IsStale,
\* ShouldSkip and ShouldAlert false and a zero FileAge, carrying the requested
\* threshold and behaviour.
C21_FailedProbeIsAResult ==
  \A k \in 1..Len(checkResult) :
    LET r == checkResult[k]
    IN  FailedProbe =>
          /\ r.Error # Nil
          /\ ~r.IsStale /\ ~r.ShouldSkip /\ ~r.ShouldAlert
          /\ r.FileAge = 0
          /\ r.LastModified = ZeroTime
          /\ r.Threshold = check.Threshold
          /\ r.Behavior = check.Behavior

C21_Witness ==
  /\ checkResult # << >>
  /\ response.transport = "ok" /\ response.status = 404
  /\ check.Threshold = 2 /\ check.Behavior = "alert"
  /\ checkResult[1].Error = "failed to get last modified time"
  /\ checkResult[1].Threshold = 2

\* The sources of the call that are disabled.
DisabledSources == { i \in 1..Len(apis) : ~apis[i].Enabled }

\* Source i is in the jobs channel or in the hands of a worker.
InThePool(i) ==
  \/ \E k \in 1..Len(jobs) : jobs[k].Name = i
  \/ \E w \in WorkerIds : workers[w].pc \in {"process", "send"} /\ workers[w].api.Name = i

MeasurementsOf(i) == { k \in 1..Len(metricBatch) : metricBatch[k].api = i }

\* Nothing but the empty outcome is produced for source i: no probe, no
\* fetch, no record, no measurement, and ProcessAPI is not entered.
OnlyEmptyOutcome(i) ==
  /\ heads[i] = 0 /\ gets[i] = 0
  /\ EventsOf(i) = {} /\ MeasurementsOf(i) = {}
  /\ \A w \in WorkerIds : ~(workers[w].pc = "process" /\ workers[w].api.Name = i)
  /\ \A r \in Outcomes(i) : r = EmptyProcessResult(i)

\* C22, as stated: a disabled source never enters the worker pool (it is not
\* queued to a worker) and only its empty outcome is produced.
C22_DisabledNeverQueued ==
  \A i \in DisabledSources : ~InThePool(i) /\ OnlyEmptyOutcome(i)

\* C22, amended: a disabled source is queued and taken by a worker like any
\* other; the worker short-circuits it to the empty outcome, which is
\* returned with the others, and nothing else is produced for it.
C22_DisabledShortCircuitsInWorker ==
  \A i \in DisabledSources :
    /\ OnlyEmptyOutcome(i)
    /\ (nextJob > i /\ ~crashed) => Holders(i) = 1
    /\ mainPc = "returned" =>
         \E k \in 1..Len(processResults) : processResults[k] = EmptyProcessResult(i)

C22_Witness ==
  /\ Len(apis) = 2
  /\ ~apis[1].Enabled /\ apis[2].Enabled
  /\ \E w \in WorkerIds : workers[w].pc = "send" /\ workers[w].api.Name = 1
  /\ mainPc = "send"

\* The configured webhook URL is missing, empty, without a scheme, with a
\* scheme other than http or https, or without a host.
BadWebhookURL ==
  \/ ~hook.setting.present
  \/ hook.setting.url.blank
  \/ hook.setting.url.scheme \notin {"http", "https"}
  \/ hook.setting.url.host = ""

\* C23: with a missing or malformed webhook URL sendWebhook returns an error
\* and issues no HTTP request.
C23_WebhookValidatedBeforeSend ==
  \A k \in 1..Len(hookResult) :
    BadWebhookURL => hookResult[k].err # Nil /\ hookResult[k].posts = 0

C23_Witness ==
  /\ hookResult # << >>
  /\ hook.setting.present /\ ~hook.setting.url.blank
  /\ hook.setting.url.scheme = "ftp" /\ hook.net = "ok"
  /\ hookResult[1].err = "invalid webhook URL" /\ hookResult[1].posts = 0

\* What CheckStaleness makes of checks[i] of the CheckMultiple call.
ResultOfCheck(i) ==
  LET c == multi.checks[i]
  IN  CheckStaleness(c.check.URL, c.resp, c.check.Threshold, c.check.Behavior)

\* C24: CheckMultiple returns exactly len(checks) results, result i being
\* the result of checks[i], whatever the order in which the checks complete.
C24_ResultsInInputOrder ==
  multi.pc = "returned" =>
    /\ Len(multi.results) = Len(multi.checks)
    /\ \A i \in 1..Len(multi.checks) :
         /\ multi.results[i] = ResultOfCheck(i)
         /\ multi.results[i].Threshold = multi.checks[i].check.Threshold
         /\ multi.results[i].Behavior = multi.checks[i].check.Behavior

C24_Witness ==
  /\ multi.pc = "returned"
  /\ multi.order = <<2, 1>>
  /\ multi.checks[1].check.Behavior = "skip" /\ multi.results[1].ShouldSkip
  /\ multi.checks[2].check.URL.scheme = "" /\ multi.results[2].Error = "invalid URL"

\* LoadConfig has returned a configuration.
ConfigAccepted == loaded # << >> /\ loaded[1].err = Nil

\* C25: every configuration that passes setDefaults and validate has a
\* worker count in 1..100 and a threshold > 0 on every source whose policy
\* is enabled: a zero threshold has become 5 minutes, and a configuration
\* with a negative one is rejected.
C25_AcceptedConfigIsSane ==
  /\ ConfigAccepted =>
       LET c == loaded[1].config
       IN  /\ c.WorkerCount \in 1..100
           /\ rawConfig.WorkerCount = 0 => c.WorkerCount = 4
           /\ \A i \in 1..Len(c.APIs) :
                c.APIs[i].Staleness.Enabled =>
                  /\ c.APIs[i].Staleness.Threshold > 0
                  /\ rawConfig.APIs[i].Staleness.Threshold = 0 =>
                       c.APIs[i].Staleness.Threshold = 300
  /\ (loaded # << >>
        /\ \E i \in 1..Len(rawConfig.APIs) :
             /\ rawConfig.APIs[i].Staleness.Enabled
             /\ rawConfig.APIs[i].Staleness.Threshold < 0)
       => loaded[1].err # Nil

C25_Witness ==
  /\ ConfigAccepted
  /\ rawConfig.WorkerCount = 0
  /\ Len(rawConfig.APIs) = 2
  /\ rawConfig.APIs[1].Staleness.Enabled /\ rawConfig.APIs[1].Staleness.Threshold = 0
  /\ loaded[1].config.APIs[1].Staleness.Threshold = 300
  /\ ~rawConfig.APIs[2].Staleness.Enabled /\ rawConfig.APIs[2].Staleness.Threshold = -1

\* The positions of the enabled sources of the loaded configuration.
EnabledPositions ==
  { i \in 1..Len(loaded[1].config.APIs) : loaded[1].config.APIs[i].Enabled }

\* C26: GetEnabledAPIs returns exactly the sources whose enabled flag is
\* true, in configuration order, and nothing else.
C26_ExactlyTheEnabledInOrder ==
  \A k \in 1..Len(enabledList) :
    LET got == enabledList[k]
    IN  /\ Len(got) = Cardinality(EnabledPositions)
        /\ \A j \in 1..Len(got) : got[j].Enabled
        /\ { got[j].Name : j \in 1..Len(got) } = EnabledPositions
        /\ \A j \in 1..Len(got) : got[j] = loaded[1].config.APIs[got[j].Name]
        /\ \A j \in 1..(Len(got) - 1) : got[j].Name < got[j + 1].Name

C26_Witness ==
  /\ enabledList # << >>
  /\ Len(loaded[1].config.APIs) = 2
  /\ ~loaded[1].config.APIs[1].Enabled
  /\ Len(enabledList[1]) = 1 /\ enabledList[1][1].Name = 2

\* SendBatch has swapped the pending records out and has not yet taken the
\* lock to swap the pending measurements out.
BetweenSwaps == flusher.pc \in {"ev_marshal", "ev_http", "me_lock"}

\* C27 as stated: nothing is added between the swap of the pending records
\* and the swap of the pending measurements of one SendBatch, so the pending
\* records, emptied by the first swap, are still empty at the second.
C27_NothingAddedBetweenSwaps == BetweenSwaps => eventBatch = << >>

\* C27: each of the two swaps is made under the batch lock, so that no
\* AddEvent or AddMetric takes effect between the copy and the clearing of
\* one collection; the lock is free between the two swaps.
C27_EachSwapUnderLock ==
  /\ flusher.pc \in {"ev_swap", "me_swap"} =>
       /\ batchMutex = FlusherId
       /\ \A p \in ProducerIds : producers[p].pc # "locked"
  /\ \A p \in ProducerIds : producers[p].pc = "locked" => batchMutex = p
  /\ BetweenSwaps => batchMutex # FlusherId

\* A record took effect after the records swap of a SendBatch that sent
\* something, before its measurements swap.
C27_Witness ==
  /\ BetweenSwaps
  /\ flusher.events # << >>
  /\ eventBatch # << >>

\* The last n entries of a sequence.
LastEntries(seq, n) == SubSeq(seq, Len(seq) - n + 1, Len(seq))

\* No entry of a snapshot is pending, and each is in one snapshot only.
Dropped(snapshot, flushed, pending) ==
  \A k \in 1..Len(snapshot) :
    /\ Occurrences(snapshot[k].api, pending) = 0
    /\ Occurrences(snapshot[k].api, flushed) = 1

\* C29: a failed submission is not retried.  Once SendEvents (SendMetrics)
\* has failed on its snapshot it has returned and does not transmit again;
\* the snapshot's entries are not pending again; and as every transmission
\* is of the snapshot just taken, and no entry is in two snapshots or in a
\* snapshot and pending, no later flush transmits them: each entry is
\* transmitted at most once.
C29_FailedSubmissionNotRetried ==
  /\ SubmissionFailed(flusher.evOutcome) =>
       /\ flusher.pc \notin {"ev_lock", "ev_swap", "ev_marshal", "ev_http"}
       /\ Dropped(flusher.events, flushedEvents, eventBatch)
  /\ SubmissionFailed(flusher.meOutcome) =>
       /\ flusher.pc \notin {"me_lock", "me_swap", "me_marshal", "me_http"}
       /\ Dropped(flusher.metrics, flushedMetrics, metricBatch)
  /\ flusher.pc \in {"ev_marshal", "ev_http"} =>
       /\ flusher.evOutcome = "none"
       /\ flusher.events = LastEntries(flushedEvents, Len(flusher.events))
  /\ flusher.pc \in {"me_marshal", "me_http"} =>
       /\ flusher.meOutcome = "none"
       /\ flusher.metrics = LastEntries(flushedMetrics, Len(flusher.metrics))
  /\ Dropped(flushedEvents, flushedEvents, eventBatch)
  /\ Dropped(flushedMetrics, flushedMetrics, metricBatch)

\* The second SendBatch transmits its records after the first took a
\* snapshot of its own, and records have been added since.
C29_LaterFlush ==
  /\ flusher.done = 1
  /\ flusher.pc = "ev_http"
  /\ Len(flushedEvents) > Len(flusher.events)
  /\ eventBatch # << >>

\* The submission of a snapshot of records has failed, SendBatch has
\* returned, and a record has been added since.
C29_Witness ==
  /\ BatchReturned
  /\ flusher.evOutcome = "request failed"
  /\ flusher.events # << >>
  /\ eventBatch # << >>

\* Every ProcessAPI call of this ProcessAPIs returns.
PipelinesTerminate ==
  \A i \in 1..Len(apis) : apis[i].Enabled => ~network[apis[i].Name].panic

\* A worker about to send its result finds room in the results channel.
NoWorkerBlocked ==
  \A w \in WorkerIds : workers[w].pc = "send" => Len(results) < Len(apis)

\* ProcessAPIs has returned and every goroutine it started has ended.
PoolDone ==
  /\ mainPc = "returned"
  /\ \A w \in WorkerIds :
       workers[w].pc = IF w <= NumWorkers(maxWorkers) THEN "exited" ELSE "unstarted"

\* C30: provided every per-source pipeline terminates, whatever the number
\* of sources and of workers, no worker ever waits to send its result,
\* ProcessAPIs eventually returns and every worker it started eventually
\* exits, those in excess of the sources included.
C30_PoolTerminates == PipelinesTerminate => ([]NoWorkerBlocked /\ <>[]PoolDone)

\* A call with more workers than sources has returned and all have exited.
C30_Witness ==
  /\ PoolDone
  /\ Len(apis) >= 1
  /\ NumWorkers(maxWorkers) > Len(apis)
  /\ \E i \in 1..Len(apis) : apis[i].Enabled

\* processAPIs has returned.
CycleCompleted == cycle.pc = "done"

\* C28: every cycle ends with a flush of the batch: once the cycle has
\* completed, everything appended during it has been handed to a flush
\* and nothing is left pending for the next cycle.
C28_CycleEndsWithFlush ==
  CycleCompleted => eventBatch = << >> /\ metricBatch = << >>

\* The threads inside a critical section on the pending collections: a
\* producer between Lock and the deferred Unlock of AddEvent / AddMetric,
\* the flushing thread between Lock and Unlock of a swap.
InCriticalSection ==
  { p \in ProducerIds : producers[p].pc = "locked" }
  \cup (IF flusher.pc \in {"ev_swap", "me_swap"} THEN {FlusherId} ELSE {})

\* C31: the pending collections are read and written only by the thread
\* holding the batch lock, and no two threads are inside a critical section
\* on them at the same time.
C31_BatchAccessUnderLock ==
  /\ [](/\ Cardinality(InCriticalSection) <= 1
        /\ \A t \in InCriticalSection : batchMutex = t
        /\ batchMutex # Free => batchMutex \in InCriticalSection)
  /\ [][(eventBatch' # eventBatch \/ metricBatch' # metricBatch)
          => /\ batchMutex \in InCriticalSection
             /\ batchMutex' = Free]_vars

\* A producer is inside while the other producer and the flushing thread
\* both wait for the lock.
C31_Witness ==
  /\ \E p \in ProducerIds :
       /\ producers[p].pc = "locked"
       /\ \E q \in ProducerIds \ {p} : producers[q].pc = "call"
  /\ flusher.pc \in {"ev_lock", "me_lock"}

\* The analysis loop of processAPIs has gone through every outcome.
Analysed ==
  \/ cycle.pc \in {"metrics", "flush", "flushing"}
  \/ cycle.pc = "done" /\ mainPc = "returned"

RECURSIVE SumRecordCounts(_)
SumRecordCounts(outcomes) ==
  IF outcomes = << >> THEN 0
  ELSE Head(outcomes).RecordCount + SumRecordCounts(Tail(outcomes))

\* C32: the summary of a cycle is exact: the total of records is the sum
\* of the outcomes' record counts, the errors are as many as the outcomes
\* carrying an error, and the stale count is the number of outcomes with
\* IsStale, whatever the behaviour of their source.
C32_SummaryExact ==
  Analysed =>
    /\ cycle.totalRecords = SumRecordCounts(processResults)
    /\ cycle.errors =
         Cardinality({ k \in 1..Len(processResults) : processResults[k].Error # Nil })
    /\ cycle.staleCount =
         Cardinality({ k \in 1..Len(processResults) : processResults[k].IsStale })

\* Two outcomes: one stale with a record, the other with an error.
C32_Witness ==
  /\ Analysed
  /\ Len(processResults) = 2
  /\ cycle.totalRecords = 1 /\ cycle.errors = 1 /\ cycle.staleCount = 1

\* A stale source with behaviour skip is in the stale count.
C32_SkipCounted ==
  /\ Analysed
  /\ Len(processResults) = 1
  /\ config.APIs[1].Staleness.Behavior = "skip"
  /\ cycle.staleCount = 1

\* The error alerts processAPIs has sent for a source.
ErrorAlertsFor(name) ==
  Cardinality({ k \in 1..Len(cycle.alerts) : cycle.alerts[k] = ErrorAlert(name) })

\* C33: errors of single sources are escalated, never propagated: an
\* outcome with an error gets exactly one error alert when alerts are
\* enabled and none when they are not; the process is not ended by the
\* alert, the other outcomes are aggregated and the cycle ends with a flush
\* attempted.
C33_ErrorsEscalatedNotPropagated ==
  /\ Analysed =>
       \A k \in 1..Len(processResults) :
         ErrorAlertsFor(processResults[k].APIName) =
           IF processResults[k].Error # Nil /\ config.EnableAlerts THEN 1 ELSE 0
  /\ cycle.pc = "error_alert" => ~exited
  /\ (cycle.pc = "done" /\ \E k \in 1..Len(processResults) : processResults[k].Error # Nil)
       => cycle.flushes = 1

\* The outcomes of all sources produced so far.
AllOutcomes == UNION { Outcomes(i) : i \in 1..Len(apis) }

\* C34: in every outcome of ProcessAPI, HasError is true exactly when Error
\* is set; an outcome with an error has RecordCount 0 and no record of its
\* source in the batch; an outcome without one has exactly RecordCount.
C34_ErrorMeansNoRecords ==
  \A r \in AllOutcomes :
    /\ r.HasError = (r.Error # Nil)
    /\ r.HasError => r.RecordCount = 0
    /\ Cardinality(EventsOf(r.APIName)) = r.RecordCount

\* Every exit with an error has been taken by some call whose payload would
\* have parsed to a record, and the successful path has emitted one.
C34_Witness ==
  /\ Len(processResults) = 1
  /\ processResults[1].Error = "failed to fetch data"
  /\ network[1].out.n = 1
  /\ eventBatch = << >>

\* The measurements of a name recorded for source i.
MetricsNamed(name, i) ==
  Cardinality({ k \in 1..Len(metricBatch) :
                  metricBatch[k].name = name /\ metricBatch[k].api = i })

ProcessingMetricNames ==
  {"flex.processing.duration", "flex.processing.records", "flex.processing.status"}

StalenessMetricNames ==
  {"flex.staleness.file_age", "flex.staleness.threshold", "flex.staleness.ratio"}

\* The source of an outcome, as configured.
SourceOf(r) == apis[CHOOSE i \in 1..Len(apis) : apis[i].Name = r.APIName]

\* C35: every ProcessAPI call records the processing measurements of its
\* source exactly once, whatever its exit, and the staleness measurements
\* exactly once if the policy is enabled and the probe succeeded, and not at
\* all otherwise.
C35_MeasurementsOncePerCall ==
  \A r \in AllOutcomes :
    SourceOf(r).Enabled =>
      /\ \A n \in ProcessingMetricNames : MetricsNamed(n, r.APIName) = 1
      /\ \A n \in StalenessMetricNames :
           MetricsNamed(n, r.APIName) =
             IF SourceOf(r).Staleness.Enabled /\ r.Error # "staleness check failed"
               THEN 1 ELSE 0

\* A call that left on a failed probe: processing measurements only.
C35_Witness ==
  /\ Len(processResults) = 1
  /\ apis[1].Staleness.Enabled
  /\ processResults[1].Error = "staleness check failed"
  /\ Len(metricBatch) = 3

\* C36: every behaviour that validate accepts is acted on: a stale source
\* whose behaviour is an accepted spelling of skip is never fetched.
C36_AcceptedSkipNeverFetched ==
  \A r \in AllOutcomes :
    LET st == SourceOf(r).Staleness
    IN  (/\ SourceOf(r).Enabled /\ st.Enabled
         /\ BehaviorAccepted(st.Behavior) /\ LowerCase(st.Behavior) = "skip"
         /\ r.IsStale)
          => gets[r.APIName] = 0

\* C37: once the shutdown signal has cancelled the context, run starts no
\* further cycle, a tick pending in ticker.C notwithstanding.
C37_NoCycleAfterCancel ==
  [][(sigState = "cancelled" /\ runPc = "select") => activeCycles' <= activeCycles]_vars

\* C38: every record in the batch carries the event_type configured for its
\* source and the source's name, whatever fields its payload item and the
\* source's static attributes hold.
C38_EventTaggedAsConfigured ==
  \A k \in 1..Len(evStored) :
    /\ evStored[k]["eventType"] = evInput.api.EventType
    /\ evStored[k]["api.name"] = evInput.api.Name

\* C39: with a filter expression the records are built only from the first
\* value the filter produces; a first value that is an error fails the
\* transform; and when the filter produces nothing, no record is built from
\* the unfiltered payload.
C39_OnlyFirstFilterValue ==
  \A k \in 1..Len(jqResult) :
    (jqInput.parses /\ jqInput.jq = "filter") =>
      LET res == jqResult[k]
          run == jqInput.run
      IN  /\ \A i \in 1..Len(res.samples) : res.samples[i] = 1
          /\ (Len(run) >= 1 /\ run[1] = FilterError) => res.err # Nil
          /\ (Len(run) >= 1 /\ run[1] # FilterError /\ run[1].kind # "scalar") =>
               res.err = Nil /\ Len(res.samples) = run[1].n

\* C40: within one ProcessAPIs call a source is probed at most once and
\* fetched at most once; it is fetched exactly once when its policy is not
\* enabled or the probe succeeded without a decision to skip, and not at all
\* otherwise; without a policy it is not probed and its outcome not stale.
C40_AtMostOneProbeAndFetch ==
  /\ \A i \in 1..Len(apis) : heads[i] <= 1 /\ gets[i] <= 1
  /\ \A r \in AllOutcomes :
       LET st == SourceOf(r).Staleness
           i  == r.APIName
       IN  SourceOf(r).Enabled =>
             /\ gets[i] =
                  IF \/ ~st.Enabled
                     \/ /\ r.Error # "staleness check failed"
                        /\ ~(r.IsStale /\ st.Behavior = "skip")
                    THEN 1 ELSE 0
             /\ ~st.Enabled => heads[i] = 0 /\ ~r.IsStale

\* A stale source with behaviour continue has been probed once and fetched
\* once.
C40_Witness ==
  /\ Len(processResults) = 1
  /\ apis[1].Staleness.Enabled /\ apis[1].Staleness.Behavior = "continue"
  /\ processResults[1].IsStale
  /\ heads[1] = 1 /\ gets[1] = 1

====
